---- MODULE Spec2Model ----
\* A model of the TDX formula engine: the Pratt parser (src/src/parser.ts), the
\* evaluator (src/src/evaluator.ts) and the default built-in functions
\* (src/src/function-registry.ts).
\*
\* Representation.
\*   - A number is an exact rational <<n, d>> in lowest terms with d > 0 (the
\*     code computes in IEEE doubles; sums, products and quotients of the small
\*     integers used here are the rationals the doubles approximate).
\*   - "no value" (null) is the empty tuple <<>>.
\*   - A series is a sequence of numbers and nulls. The code indexes from 0;
\*     At(s, i) reads the element the code calls s[i].
\*   - A text (name, lexeme) is a sequence of one-character strings, so that
\*     toUpperCase, parseFloat and the `output_<k>` naming are computed.
\*   - A call that can throw returns [ok, val, err]: ok = TRUE and the value, or
\*     ok = FALSE and the message kind of the Error that was thrown.
EXTENDS Integers, Sequences, FiniteSets, TLC

\* ------------------------------------------------------------------ bounds
\* Longest series drawn for the windowed built-ins, longest drawn for the
\* elementwise operations, and the largest period or offset drawn.
MaxBars == 3
MaxElemBars == 2
MaxPeriod == 4
\* Most operands of a drawn expression, and most tokens of a drawn statement
\* list.
MaxOperands == 3
MaxToks == 5
MaxStmts == 3
MaxCalls == 2
MaxLateBars == 1
MaxRegistryCalls == 3
MaxCallArgs == 2
MaxIterToks == 2
MaxIterCalls == 4
MaxChars == 4
MaxLexCalls == 6
MaxRequestStocks == 2
MaxCustomCalls == 2
MaxPairStmts == 2
MaxSymbols == 25

\* pLimit(20): the slots of EastMoneyDataAdapter.rateLimiter
Concurrency == 20

\* ------------------------------------------------------------------ numbers
Null == <<>>

AbsInt(x) == IF x < 0 THEN -x ELSE x

RECURSIVE GCD(_, _)
GCD(a, b) == IF b = 0 THEN a ELSE GCD(b, a % b)

\* The rational n/d (d # 0) in lowest terms with a positive denominator.
Rat(n, d) ==
    LET g == GCD(AbsInt(n), AbsInt(d))
        s == IF d < 0 THEN -1 ELSE 1
    IN  << (s * n) \div g, (s * d) \div g >>

Num(n) == << n, 1 >>

IsNull(x) == x = Null
IsZero(x) == x[1] = 0
RAdd(x, y) == Rat(x[1] * y[2] + y[1] * x[2], x[2] * y[2])
RSub(x, y) == Rat(x[1] * y[2] - y[1] * x[2], x[2] * y[2])
RMul(x, y) == Rat(x[1] * y[1], x[2] * y[2])
RDiv(x, y) == Rat(x[1] * y[2], x[2] * y[1])
RNeg(x) == << -x[1], x[2] >>
RLt(x, y) == x[1] * y[2] < y[1] * x[2]
RGt(x, y) == RLt(y, x)
RLe(x, y) == ~RLt(y, x)
RGe(x, y) == ~RLt(x, y)
RAbs(x) == << AbsInt(x[1]), x[2] >>
IsInt(x) == x[2] = 1
Bool01(b) == IF b THEN Num(1) ELSE Num(0)

\* s[i] of the code, i counted from 0.
At(s, i) == s[i + 1]

\* A thrown Error and a returned value.
Ok(v) == [ok |-> TRUE, val |-> v, err |-> "none"]
Throw(e) == [ok |-> FALSE, val |-> <<>>, err |-> e]

\* ------------------------------------------------------- built-in functions
\* new Array(n).fill(v)
Fill(v, n) == [k \in 1..n |-> v]

\* DefaultFunctionRegistry.getNumberArg: the scalar is element 0 of its series.
getNumberArg(argValues) ==
    IF Len(argValues) = 0 THEN Throw("Missing numeric argument")
    ELSE IF At(argValues, 0) = Null THEN Throw("Numeric argument cannot be null")
    ELSE Ok(At(argValues, 0))

\* The inner loop `for (j = lo; j <= i; j++)` of MA and SUM: the running sum
\* and the number of non-null elements met.
RECURSIVE SumLoop(_, _, _, _, _)
SumLoop(data, j, i, sum, count) ==
    IF j > i THEN << sum, count >>
    ELSE IF At(data, j) # Null
         THEN SumLoop(data, j + 1, i, RAdd(sum, At(data, j)), count + 1)
         ELSE SumLoop(data, j + 1, i, sum, count)

\* The inner loop of HHV (better = RGt) and LLV (better = RLt).
RECURSIVE ExtremeLoop(_, _, _, _, _)
ExtremeLoop(data, j, i, best, wantMax) ==
    IF j > i THEN best
    ELSE IF At(data, j) # Null
            /\ (best = Null
                \/ (IF wantMax THEN RGt(At(data, j), best) ELSE RLt(At(data, j), best)))
         THEN ExtremeLoop(data, j + 1, i, At(data, j), wantMax)
         ELSE ExtremeLoop(data, j + 1, i, best, wantMax)

\* A COUNT that counts every non-null element, zero included.
RECURSIVE CountLoop_CountsZeros(_, _, _, _)
CountLoop_CountsZeros(condition, j, i, count) ==
    IF j > i THEN count
    ELSE IF At(condition, j) # Null
         THEN CountLoop_CountsZeros(condition, j + 1, i, count + 1)
         ELSE CountLoop_CountsZeros(condition, j + 1, i, count)

\* The inner loop of COUNT.
RECURSIVE CountLoop(_, _, _, _)
CountLoop(condition, j, i, count) ==
    IF j > i THEN count
    ELSE IF At(condition, j) # Null /\ ~IsZero(At(condition, j))
         THEN CountLoop(condition, j + 1, i, count + 1)
         ELSE CountLoop(condition, j + 1, i, count)

\* An MA that divides the window sum by the nominal period.
MAElem_FixedDivisor(data, period, i) ==
    LET r == SumLoop(data, i - period + 1, i, Num(0), 0)
    IN  IF r[2] > 0 THEN RDiv(r[1], Num(period)) ELSE Null

\* What each windowed built-in pushes for an index i >= period - 1.
MAElem(data, period, i) ==
    LET r == SumLoop(data, i - period + 1, i, Num(0), 0)
    IN  IF r[2] > 0 THEN RDiv(r[1], Num(r[2])) ELSE Null

SUMElem(data, period, i) ==
    LET r == SumLoop(data, i - period + 1, i, Num(0), 0)
    IN  IF r[2] > 0 THEN r[1] ELSE Null

HHVElem(data, period, i) == ExtremeLoop(data, i - period + 1, i, Null, TRUE)

LLVElem(data, period, i) == ExtremeLoop(data, i - period + 1, i, Null, FALSE)

COUNTElem(condition, period, i) == Num(CountLoop(condition, i - period + 1, i, 0))

\* The loop of STD and CV that adds up Math.pow(data[j] - mean, 2).
RECURSIVE VarianceLoop(_, _, _, _, _)
VarianceLoop(data, j, i, mean, variance) ==
    IF j > i THEN variance
    ELSE IF At(data, j) # Null
         THEN VarianceLoop(data, j + 1, i, mean,
                           RAdd(variance, RMul(RSub(At(data, j), mean), RSub(At(data, j), mean))))
         ELSE VarianceLoop(data, j + 1, i, mean, variance)

\* The natural number whose square is n, if there is one.
IsSquare(n) == \E r \in 0..n : r * r = n
IntSqrt(n) == CHOOSE r \in 0..n : r * r = n

\* sign * Math.sqrt(q) for a rational q >= 0: the rational it is, or, when
\* it is irrational, the root written out.
Root(sign, q) ==
    IF IsSquare(q[1]) /\ IsSquare(q[2])
    THEN Rat(sign * IntSqrt(q[1]), IntSqrt(q[2]))
    ELSE << "sqrt", sign, q >>

STDElem(data, period, i) ==
    LET r == SumLoop(data, i - period + 1, i, Num(0), 0)
    IN  IF r[2] = 0 THEN Null
        ELSE Root(1, RDiv(VarianceLoop(data, i - period + 1, i, RDiv(r[1], Num(r[2])), Num(0)),
                          Num(r[2])))

\* stdDev / mean is Math.sqrt(variance / count / mean^2) with the sign of mean.
CVElem(data, period, i) ==
    LET r == SumLoop(data, i - period + 1, i, Num(0), 0)
    IN  IF r[2] = 0 \/ IsZero(r[1]) THEN Null
        ELSE LET mean == RDiv(r[1], Num(r[2]))
                 q == RDiv(VarianceLoop(data, i - period + 1, i, mean, Num(0)), Num(r[2]))
             IN  Root(IF mean[1] < 0 THEN -1 ELSE 1, RDiv(q, RMul(mean, mean)))

WindowElem(fn, data, period, i) ==
    CASE fn = "MA" -> MAElem(data, period, i)
      [] fn = "STD" -> STDElem(data, period, i)
      [] fn = "CV" -> CVElem(data, period, i)
      [] fn = "SUM" -> SUMElem(data, period, i)
      [] fn = "HHV" -> HHVElem(data, period, i)
      [] fn = "LLV" -> LLVElem(data, period, i)
      [] fn = "COUNT" -> COUNTElem(data, period, i)

\* A windowed built-in reads (data, period) and pushes one element per index,
\* null while i < period - 1. The scalar is modelled for integral values (the
\* doubles the claims use).
Windowed(fn, args) ==
    IF Len(args) < 2 THEN Throw("TypeError")
    ELSE LET data == args[1]
             p == getNumberArg(args[2])
         IN  IF ~p.ok THEN p
             ELSE IF ~IsInt(p.val) THEN Throw("non-integral scalar")
             ELSE LET period == p.val[1]
                  IN  Ok([k \in 1..Len(data) |->
                            IF k - 1 < period - 1 THEN Null
                            ELSE WindowElem(fn, data, period, k - 1)])

MA(args) == Windowed("MA", args)

SUM(args) == Windowed("SUM", args)

HHV(args) == Windowed("HHV", args)

LLV(args) == Windowed("LLV", args)

STD(args) == Windowed("STD", args)

CV(args) == Windowed("CV", args)

COUNT(args) == Windowed("COUNT", args)

\* A REF whose bound test is off by one.
REFElem_OffByOne(data, offset, i) ==
    LET refIndex == i - offset IN IF refIndex > 0 THEN At(data, refIndex) ELSE Null

REFElem(data, offset, i) ==
    LET refIndex == i - offset IN IF refIndex >= 0 THEN At(data, refIndex) ELSE Null

REF(args) ==
    IF Len(args) < 2 THEN Throw("TypeError")
    ELSE LET data == args[1]
             o == getNumberArg(args[2])
         IN  IF ~o.ok THEN o
             ELSE IF ~IsInt(o.val) THEN Throw("non-integral scalar")
             ELSE IF RLt(o.val, Num(0)) THEN Throw("REF offset must be non-negative")
             ELSE Ok([k \in 1..Len(data) |-> REFElem(data, o.val[1], k - 1)])

\* An IF that looks only at the branch it selects.
IFElem_Lazy(cond, t, f) ==
    IF cond = Null THEN Null
    ELSE IF ~IsZero(cond) THEN t ELSE f

IFElem(cond, t, f) ==
    IF cond = Null \/ t = Null \/ f = Null THEN Null
    ELSE IF ~IsZero(cond) THEN t ELSE f

FnIF(args) ==
    IF Len(args) < 3 THEN Throw("TypeError")
    ELSE LET condition == args[1]
             trueValue == args[2]
             falseValue == args[3]
         IN  Ok([k \in 1..Len(condition) |->
                    IFElem(condition[k], trueValue[k], falseValue[k])])

\* A CROSS that counts touching as crossing.
CROSSElem_NonStrict(a, b, i) ==
    IF i = 0 \/ At(a, i) = Null \/ At(b, i) = Null
       \/ At(a, i - 1) = Null \/ At(b, i - 1) = Null
    THEN Num(0)
    ELSE Bool01(RLe(At(a, i - 1), At(b, i - 1)) /\ RGt(At(a, i), At(b, i)))

CROSSElem(a, b, i) ==
    IF i = 0 \/ At(a, i) = Null \/ At(b, i) = Null
       \/ At(a, i - 1) = Null \/ At(b, i - 1) = Null
    THEN Num(0)
    ELSE Bool01(RLt(At(a, i - 1), At(b, i - 1)) /\ RGt(At(a, i), At(b, i)))

CROSS(args) ==
    IF Len(args) < 2 THEN Throw("TypeError")
    ELSE LET a == args[1]
             b == args[2]
         IN  Ok([k \in 1..Len(a) |-> CROSSElem(a, b, k - 1)])

ABS(args) ==
    IF Len(args) < 1 THEN Throw("TypeError")
    ELSE Ok([k \in 1..Len(args[1]) |->
                IF args[1][k] = Null THEN Null ELSE RAbs(args[1][k])])

MAX(args) ==
    IF Len(args) < 2 THEN Throw("TypeError")
    ELSE Ok([k \in 1..Len(args[1]) |->
                IF args[1][k] = Null \/ args[2][k] = Null THEN Null
                ELSE IF RLt(args[1][k], args[2][k]) THEN args[2][k] ELSE args[1][k]])

MIN(args) ==
    IF Len(args) < 2 THEN Throw("TypeError")
    ELSE Ok([k \in 1..Len(args[1]) |->
                IF args[1][k] = Null \/ args[2][k] = Null THEN Null
                ELSE IF RLt(args[2][k], args[1][k]) THEN args[2][k] ELSE args[1][k]])

\* ---------------------------------------------------------- binary operators
BinaryOperator ==
    {"Add", "Sub", "Mul", "Div", "Gt", "Lt", "GtEq", "LtEq", "Eq", "NotEq", "And", "Or"}

\* A binary operator whose AND and OR short-circuit on the left operand.
BinaryElem_ShortCircuit(operator, leftVal, rightVal) ==
    IF leftVal = Null THEN Null
    ELSE IF operator = "And" /\ IsZero(leftVal) THEN Num(0)
    ELSE IF operator = "Or" /\ ~IsZero(leftVal) THEN Num(1)
    ELSE IF rightVal = Null THEN Null
    ELSE CASE operator = "Add" -> RAdd(leftVal, rightVal)
           [] operator = "Sub" -> RSub(leftVal, rightVal)
           [] operator = "Mul" -> RMul(leftVal, rightVal)
           [] operator = "Div" -> IF IsZero(rightVal) THEN Null ELSE RDiv(leftVal, rightVal)
           [] operator = "Gt" -> Bool01(RGt(leftVal, rightVal))
           [] operator = "Lt" -> Bool01(RLt(leftVal, rightVal))
           [] operator = "GtEq" -> Bool01(RGe(leftVal, rightVal))
           [] operator = "LtEq" -> Bool01(RLe(leftVal, rightVal))
           [] operator = "Eq" -> Bool01(leftVal = rightVal)
           [] operator = "NotEq" -> Bool01(leftVal # rightVal)
           [] operator = "And" -> Bool01(~IsZero(rightVal))
           [] operator = "Or" -> Bool01(~IsZero(rightVal))

\* The body of leftValue.map(...) in evaluateBinaryOp, for one index.
BinaryElem(operator, leftVal, rightVal) ==
    IF leftVal = Null \/ rightVal = Null THEN Null
    ELSE CASE operator = "Add" -> RAdd(leftVal, rightVal)
           [] operator = "Sub" -> RSub(leftVal, rightVal)
           [] operator = "Mul" -> RMul(leftVal, rightVal)
           [] operator = "Div" -> IF IsZero(rightVal) THEN Null ELSE RDiv(leftVal, rightVal)
           [] operator = "Gt" -> Bool01(RGt(leftVal, rightVal))
           [] operator = "Lt" -> Bool01(RLt(leftVal, rightVal))
           [] operator = "GtEq" -> Bool01(RGe(leftVal, rightVal))
           [] operator = "LtEq" -> Bool01(RLe(leftVal, rightVal))
           [] operator = "Eq" -> Bool01(leftVal = rightVal)
           [] operator = "NotEq" -> Bool01(leftVal # rightVal)
           [] operator = "And" -> Bool01(~IsZero(leftVal) /\ ~IsZero(rightVal))
           [] operator = "Or" -> Bool01(~IsZero(leftVal) \/ ~IsZero(rightVal))

\* evaluateBinaryOp once both operands are evaluated.
BinaryValues(operator, leftValue, rightValue) ==
    IF Len(leftValue) # Len(rightValue)
    THEN Throw("Binary operation requires arrays of same length")
    ELSE Ok([k \in 1..Len(leftValue) |-> BinaryElem(operator, leftValue[k], rightValue[k])])

\* The body of operandValue.map(...) in evaluateUnaryOp.
UnaryElem(operator, value) ==
    IF value = Null THEN Null
    ELSE IF operator = "Neg" THEN RNeg(value)
    ELSE IF IsZero(value) THEN Num(1) ELSE Num(0)

UnaryValues(operator, operandValue) ==
    [k \in 1..Len(operandValue) |-> UnaryElem(operator, operandValue[k])]

\* ------------------------------------------------------------------- texts
\* A text is a sequence of characters.
Digits == << "0", "1", "2", "3", "4", "5", "6", "7", "8", "9" >>

IsDigitChar(ch) == \E k \in 1..10 : Digits[k] = ch

DigitVal(ch) == (CHOOSE k \in 1..10 : Digits[k] = ch) - 1

LowerChars == << "a", "b", "c", "d", "e", "f", "g", "h", "i", "j", "k", "l", "m", "n", "o", "p",
                "q", "r", "s", "t", "u", "v", "w", "x", "y", "z" >>
UpperChars == << "A", "B", "C", "D", "E", "F", "G", "H", "I", "J", "K", "L", "M", "N", "O", "P",
                "Q", "R", "S", "T", "U", "V", "W", "X", "Y", "Z" >>

\* String.prototype.toUpperCase over the letters used here.
UpperChar(ch) ==
    IF \E k \in 1..Len(LowerChars) : LowerChars[k] = ch
    THEN UpperChars[CHOOSE k \in 1..Len(LowerChars) : LowerChars[k] = ch]
    ELSE ch

toUpperCase(text) == [k \in 1..Len(text) |-> UpperChar(text[k])]

RECURSIVE Pow10(_)
Pow10(n) == IF n = 0 THEN 1 ELSE 10 * Pow10(n - 1)

\* The whole number written by a run of digits.
RECURSIVE DigitsValue(_)
DigitsValue(text) ==
    IF Len(text) = 0 THEN 0
    ELSE 10 * DigitsValue(SubSeq(text, 1, Len(text) - 1)) + DigitVal(text[Len(text)])

\* parseFloat of a Number lexeme: digits, then optionally `.` and digits.
parseFloat(lexeme) ==
    IF \E k \in 1..Len(lexeme) : lexeme[k] = "."
    THEN LET dot == CHOOSE k \in 1..Len(lexeme) : lexeme[k] = "."
             whole == SubSeq(lexeme, 1, dot - 1)
             frac == SubSeq(lexeme, dot + 1, Len(lexeme))
         IN  Rat(DigitsValue(whole) * Pow10(Len(frac)) + DigitsValue(frac), Pow10(Len(frac)))
    ELSE Num(DigitsValue(lexeme))

\* ------------------------------------------------------------------ tokens
\* createToken(tokenType, lexeme, ...); `null` where the code holds no token.
Tok(tokenType, lexeme) == [tokenType |-> tokenType, lexeme |-> lexeme]
NullTok == Tok("null", <<>>)
EofTok == Tok("Eof", <<>>)

\* ---------------------------------------------------------------------- AST
NoName == << "<null>" >>

Node(type, name, num, op, kids) ==
    [type |-> type, name |-> name, num |-> num, operator |-> op, kids |-> kids]

createLiteralExpr(value) == Node("Literal", <<>>, value, "none", <<>>)
createVariableExpr(name) == Node("Variable", name, Null, "none", <<>>)
createUnaryOpExpr(operator, operand) == Node("UnaryOp", <<>>, Null, operator, << operand >>)
createBinaryOpExpr(left, operator, right) ==
    Node("BinaryOp", <<>>, Null, operator, << left, right >>)
createFunctionCallExpr(name, args) == Node("FunctionCall", name, Null, "none", args)
createGroupedExpr(expr) == Node("Grouped", <<>>, Null, "none", << expr >>)

Stmt(type, name, expr, styles) ==
    [type |-> type, name |-> name, expr |-> expr, styles |-> styles]

createAssignmentStatement(variable, expr) == Stmt("Assignment", variable, expr, <<>>)
createOutputStatement(name, expr, styles) == Stmt("Output", name, expr, styles)

\* ----------------------------------------------------------- token source
\* The parser's state: the lexer (the tokens it will still deliver, toks from
\* pos on, then Eof for ever), LexerIterator.nextToken and Parser.currentToken.
ParserState(toks, pos, nextToken, currentToken) ==
    [toks |-> toks, pos |-> pos, nextToken |-> nextToken, currentToken |-> currentToken]

\* this.lexer(): the token delivered and the parser state after the call.
LexerCall(ps) ==
    IF ps.pos =< Len(ps.toks)
    THEN << ps.toks[ps.pos], [ps EXCEPT !.pos = ps.pos + 1] >>
    ELSE << EofTok, ps >>

\* An IteratorResult.
IterResult(value, done) == [value |-> value, done |-> done]

\* LexerIterator.next
LexerIterator_next(ps) ==
    IF ps.nextToken # NullTok
    THEN << IterResult(ps.nextToken, FALSE), [ps EXCEPT !.nextToken = NullTok] >>
    ELSE LET c == LexerCall(ps)
         IN  IF c[1].tokenType = "Eof"
             THEN << IterResult(NullTok, TRUE), c[2] >>
             ELSE << IterResult(c[1], FALSE), c[2] >>

\* LexerIterator.peek
LexerIterator_peek(ps) ==
    LET c == LexerCall(ps)
        ps1 == IF ps.nextToken = NullTok THEN [c[2] EXCEPT !.nextToken = c[1]] ELSE ps
    IN  IF ps1.nextToken.tokenType = "Eof"
        THEN << IterResult(NullTok, TRUE), ps1 >>
        ELSE << IterResult(ps1.nextToken, FALSE), ps1 >>

\* Parser.advance
advance(ps) ==
    LET r == LexerIterator_next(ps)
    IN  [r[2] EXCEPT !.currentToken = IF r[1].done THEN NullTok ELSE r[1].value]

\* Parser.peekToken: the token (or null) and the parser state after the call.
peekToken(ps) ==
    LET r == LexerIterator_peek(ps)
    IN  << IF r[1].done THEN NullTok ELSE r[1].value, r[2] >>

\* What a parsing method returns: the value and the parser state, or the Error
\* thrown (tok is the token whose line and column the message carries, null
\* when the message carries none).
Parsed(val, ps) == [ok |-> TRUE, val |-> val, err |-> "none", tok |-> NullTok, ps |-> ps]
SyntaxError(err, tok, ps) == [ok |-> FALSE, val |-> <<>>, err |-> err, tok |-> tok, ps |-> ps]

\* An expectToken that lets the input end where a token is expected.
expectToken_LenientAtEof(ps, expectedType) ==
    LET token == ps.currentToken
    IN  IF token = NullTok THEN Parsed(NullTok, ps)
        ELSE IF token.tokenType # expectedType THEN SyntaxError("Expected but got", token, ps)
        ELSE Parsed(token, advance(ps))

\* Parser.expectToken
expectToken(ps, expectedType) ==
    LET token == ps.currentToken
    IN  IF token = NullTok THEN SyntaxError("Expected but got end of file", NullTok, ps)
        ELSE IF token.tokenType # expectedType THEN SyntaxError("Expected but got", token, ps)
        ELSE Parsed(token, advance(ps))

\* ------------------------------------------------------------------ parser
\* A table in which `-` binds to the right.
getInfixBindingPower_RightAssoc(token) ==
    CASE token.tokenType = "Or" -> << 1, 2 >>
      [] token.tokenType = "And" -> << 3, 4 >>
      [] token.tokenType \in {"Gt", "Lt", "GtEq", "LtEq", "EqEq", "NotEq"} -> << 5, 6 >>
      [] token.tokenType = "Plus" -> << 7, 8 >>
      [] token.tokenType = "Minus" -> << 8, 7 >>
      [] token.tokenType \in {"Star", "Slash"} -> << 9, 10 >>
      [] OTHER -> << 0, 0 >>

\* Parser.getInfixBindingPower
getInfixBindingPower(token) ==
    CASE token.tokenType = "Or" -> << 1, 2 >>
      [] token.tokenType = "And" -> << 3, 4 >>
      [] token.tokenType \in {"Gt", "Lt", "GtEq", "LtEq", "EqEq", "NotEq"} -> << 5, 6 >>
      [] token.tokenType \in {"Plus", "Minus"} -> << 7, 8 >>
      [] token.tokenType \in {"Star", "Slash"} -> << 9, 10 >>
      [] OTHER -> << 0, 0 >>

\* Parser.getPrefixBindingPower
getPrefixBindingPower(tokenType) ==
    IF tokenType \in {"Minus", "Not"} THEN 11 ELSE 0

\* Parser.getBinaryOperator (called only for the infix tokens)
getBinaryOperator(tokenType) ==
    CASE tokenType = "Plus" -> "Add"
      [] tokenType = "Minus" -> "Sub"
      [] tokenType = "Star" -> "Mul"
      [] tokenType = "Slash" -> "Div"
      [] tokenType = "Gt" -> "Gt"
      [] tokenType = "Lt" -> "Lt"
      [] tokenType = "GtEq" -> "GtEq"
      [] tokenType = "LtEq" -> "LtEq"
      [] tokenType = "EqEq" -> "Eq"
      [] tokenType = "NotEq" -> "NotEq"
      [] tokenType = "And" -> "And"
      [] tokenType = "Or" -> "Or"

\* One({F(x) : x \in {e}}) is F(e) with e evaluated once, however often F
\* uses x: the result of a recursive call is bound this way.
One(S) == CHOOSE x \in S : TRUE

RECURSIVE parseExpression(_, _)
RECURSIVE ExpressionLoop(_, _, _)
RECURSIVE parsePrefix(_)
RECURSIVE parseFunctionCall(_, _)
RECURSIVE ArgumentLoop(_, _)
RECURSIVE parseIfFunction(_)
RECURSIVE parseGroupedExpression(_)
RECURSIVE parseUnaryExpression(_)

\* Parser.parseExpression: the prefix expression, then the operator loop.
parseExpression(ps, minPrecedence) ==
    One({ IF ~l.ok THEN l ELSE ExpressionLoop(l.val, l.ps, minPrecedence) :
          l \in {parsePrefix(ps)} })

\* The `while (this.currentToken !== null)` loop of parseExpression.
ExpressionLoop(left, ps, minPrecedence) ==
    IF ps.currentToken = NullTok THEN Parsed(left, ps)
    ELSE LET token == ps.currentToken
             bp == getInfixBindingPower(token)
         IN  IF bp[1] = 0 \/ bp[1] < minPrecedence THEN Parsed(left, ps)
             ELSE One({ IF ~r.ok THEN r
                        ELSE ExpressionLoop(
                                 createBinaryOpExpr(left, getBinaryOperator(token.tokenType),
                                                    r.val),
                                 r.ps, minPrecedence) :
                        r \in {parseExpression(advance(ps), bp[2])} })

\* Parser.parsePrefix; `this.currentToken!` being null is a TypeError.
parsePrefix(ps) ==
    LET token == ps.currentToken
    IN  IF token = NullTok THEN SyntaxError("TypeError", NullTok, ps)
        ELSE CASE token.tokenType = "Number" ->
                    Parsed(createLiteralExpr(parseFloat(token.lexeme)), advance(ps))
               [] token.tokenType \in {"If", "Identifier"} ->
                    One({ IF pk[1].tokenType = "LParen"
                          THEN parseFunctionCall(pk[2], token.tokenType)
                          ELSE Parsed(createVariableExpr(token.lexeme), advance(pk[2])) :
                          pk \in {peekToken(ps)} })
               [] token.tokenType = "LParen" -> parseGroupedExpression(ps)
               [] token.tokenType \in {"Minus", "Not"} -> parseUnaryExpression(ps)
               [] OTHER -> SyntaxError("Unexpected token", token, ps)

\* The end of parseFunctionCall: `)` is expected after the arguments.
CloseCall(name, args) ==
    IF ~args.ok THEN args
    ELSE One({ IF ~rp.ok THEN rp ELSE Parsed(createFunctionCallExpr(name, args.val), rp.ps) :
               rp \in {expectToken(args.ps, "RParen")} })

\* Parser.parseFunctionCall
parseFunctionCall(ps, tokenType) ==
    One({ IF ~n.ok THEN n
          ELSE One({ IF ~lp.ok THEN lp
                     ELSE IF toUpperCase(n.val.lexeme) = << "I", "F" >>
                     THEN parseIfFunction(lp.ps)
                     ELSE IF lp.ps.currentToken.tokenType # "RParen"
                     THEN One({ CloseCall(n.val.lexeme,
                                          IF ~a.ok THEN a ELSE ArgumentLoop(<< a.val >>, a.ps)) :
                                a \in {parseExpression(lp.ps, 0)} })
                     ELSE CloseCall(n.val.lexeme, Parsed(<<>>, lp.ps)) :
                     lp \in {expectToken(n.ps, "LParen")} }) :
          n \in {expectToken(ps, tokenType)} })

\* The `while (... === TokenType.Comma)` loop of parseFunctionCall.
ArgumentLoop(args, ps) ==
    IF ps.currentToken.tokenType # "Comma" THEN Parsed(args, ps)
    ELSE One({ IF ~a.ok THEN a ELSE ArgumentLoop(Append(args, a.val), a.ps) :
               a \in {parseExpression(advance(ps), 0)} })

\* Parser.parseIfFunction
parseIfFunction(ps) ==
    One({ IF ~c.ok THEN c
          ELSE IF c.ps.currentToken.tokenType # "Comma"
          THEN SyntaxError("IF needs a comma after the condition", NullTok, c.ps)
          ELSE One({ IF ~t.ok THEN t
                     ELSE IF t.ps.currentToken.tokenType # "Comma"
                     THEN SyntaxError("IF needs a comma after the true value", NullTok, t.ps)
                     ELSE One({ CloseCall(<< "I", "F" >>,
                                          IF ~f.ok THEN f
                                          ELSE Parsed(<< c.val, t.val, f.val >>, f.ps)) :
                                f \in {parseExpression(advance(t.ps), 0)} }) :
                     t \in {parseExpression(advance(c.ps), 0)} }) :
          c \in {parseExpression(ps, 0)} })

\* Parser.parseGroupedExpression
parseGroupedExpression(ps) ==
    One({ IF ~lp.ok THEN lp
          ELSE One({ IF ~e.ok THEN e
                     ELSE One({ IF ~rp.ok THEN rp ELSE Parsed(createGroupedExpr(e.val), rp.ps) :
                                rp \in {expectToken(e.ps, "RParen")} }) :
                     e \in {parseExpression(lp.ps, 0)} }) :
          lp \in {expectToken(ps, "LParen")} })

\* Parser.parseUnaryExpression
parseUnaryExpression(ps) ==
    LET token == ps.currentToken
        operator == IF token.tokenType = "Minus" THEN "Neg" ELSE "Not"
    IN  One({ IF ~operand.ok THEN operand
              ELSE Parsed(createUnaryOpExpr(operator, operand.val), operand.ps) :
              operand \in {parseExpression(advance(ps),
                                           getPrefixBindingPower(token.tokenType))} })

\* Parser.parsePlotStyles
RECURSIVE parsePlotStyles(_, _)
parsePlotStyles(ps, styles) ==
    IF ps.currentToken.tokenType # "Comma" THEN Parsed(styles, ps)
    ELSE One({ IF ~st.ok THEN st ELSE parsePlotStyles(st.ps, Append(styles, st.val.lexeme)) :
               st \in {expectToken(advance(ps), "Identifier")} })

\* Parser.parseAssignmentStatement
parseAssignmentStatement(ps) ==
    One({ IF ~v.ok THEN v
          ELSE One({ IF ~a.ok THEN a
                     ELSE One({ IF ~e.ok THEN e
                                ELSE Parsed(createAssignmentStatement(v.val.lexeme, e.val), e.ps) :
                                e \in {parseExpression(a.ps, 0)} }) :
                     a \in {expectToken(v.ps, "ColonAssign")} }) :
          v \in {expectToken(ps, "Identifier")} })

\* parsePlotStyles and createOutputStatement at the end of an output statement.
CloseOutput(name, e) ==
    IF ~e.ok THEN e
    ELSE One({ IF ~st.ok THEN st
               ELSE Parsed(createOutputStatement(name, e.val, st.val), st.ps) :
               st \in {parsePlotStyles(e.ps, <<>>)} })

\* Parser.parseNamedOutputStatement
parseNamedOutputStatement(ps) ==
    One({ IF ~n.ok THEN n
          ELSE One({ IF ~c.ok THEN c
                     ELSE One({ CloseOutput(n.val.lexeme, e) :
                                e \in {parseExpression(c.ps, 0)} }) :
                     c \in {expectToken(n.ps, "Colon")} }) :
          n \in {expectToken(ps, "Identifier")} })

\* Parser.parseAnonymousOutputStatement
parseAnonymousOutputStatement(ps) ==
    One({ CloseOutput(NoName, e) : e \in {parseExpression(ps, 0)} })

\* A dispatch that takes every statement that starts with an identifier and
\* is followed by `:` or `:=` for a named output.
parseStatement_ColonOnly(ps) ==
    IF ps.currentToken.tokenType = "Identifier"
    THEN One({ IF pk[1].tokenType \in {"Colon", "ColonAssign"}
               THEN parseNamedOutputStatement(pk[2])
               ELSE parseAnonymousOutputStatement(pk[2]) :
               pk \in {peekToken(ps)} })
    ELSE parseAnonymousOutputStatement(ps)

\* Parser.parseStatement
parseStatement(ps) ==
    IF ps.currentToken.tokenType = "Identifier"
    THEN One({ IF pk[1].tokenType = "ColonAssign" THEN parseAssignmentStatement(pk[2])
               ELSE IF pk[1].tokenType = "Colon" THEN parseNamedOutputStatement(pk[2])
               ELSE parseAnonymousOutputStatement(pk[2]) :
               pk \in {peekToken(ps)} })
    ELSE parseAnonymousOutputStatement(ps)

\* The inner `while` of parseFormula that skips a run of Newline tokens.
RECURSIVE SkipNewlines(_)
SkipNewlines(ps) ==
    IF ps.currentToken.tokenType = "Newline"
    THEN One({ SkipNewlines(ps1) : ps1 \in {advance(ps)} })
    ELSE ps

\* The outer `while (this.currentToken !== null)` of parseFormula.
RECURSIVE FormulaLoop(_, _)
FormulaLoop(ps, statements) ==
    IF ps.currentToken = NullTok THEN Parsed(statements, ps)
    ELSE One({ IF ps1.currentToken = NullTok \/ ps1.currentToken.tokenType = "Eof"
               THEN Parsed(statements, ps1)
               ELSE One({ IF ~st.ok THEN st
                          ELSE FormulaLoop(
                                   IF st.ps.currentToken.tokenType = "Newline"
                                   THEN advance(st.ps) ELSE st.ps,
                                   Append(statements, st.val)) :
                          st \in {parseStatement(ps1)} }) :
               ps1 \in {SkipNewlines(ps)} })

\* new Parser(lexerFunction) over a lexer that delivers toks.
NewParser(toks) == advance(ParserState(toks, 1, NullTok, NullTok))

\* Parser.parseFormula: the statements of the Formula, or the Error.
parseFormula(ps) == FormulaLoop(ps, <<>>)

\* --------------------------------------------------------------- evaluator
\* An InputData: the five series and numBars.
InputData(opens, highs, lows, closes, volumes) ==
    [opens |-> opens, highs |-> highs, lows |-> lows, closes |-> closes,
     volumes |-> volumes, numBars |-> Len(opens)]

\* createOutputLineResult
createOutputLineResult(name, data, styles) == [name |-> name, data |-> data, styles |-> styles]

\* The names of the builtin variables.
BuiltinNames == {<< "O" >>, << "H" >>, << "L" >>, << "C" >>, << "V" >>}

\* Evaluator.initializeBuiltinVariables: the environment it leaves.
initializeBuiltinVariables(inputData) ==
    [name \in BuiltinNames |->
        CASE name = << "O" >> -> inputData.opens
          [] name = << "H" >> -> inputData.highs
          [] name = << "L" >> -> inputData.lows
          [] name = << "C" >> -> inputData.closes
          [] name = << "V" >> -> inputData.volumes]

\* environment.set(name, value)
EnvironmentSet(environment, name, value) ==
    [n \in DOMAIN environment \cup {name} |-> IF n = name THEN value ELSE environment[n]]

\* An Error thrown during evaluation: its message and the name in it.
EvalError(message, name) == Throw(<< message, name >>)

\* Evaluator.expandNumber
expandNumber(value, inputData) == Fill(value, inputData.numBars)

\* Evaluator.resolveVariable: an array is never falsy, so only a name that
\* is not a key of the environment is undefined.
resolveVariable(name, environment) ==
    IF name \in DOMAIN environment THEN Ok(environment[name])
    ELSE EvalError("Undefined variable", name)

\* The names the default registry's functions are registered under.
RegisteredNames ==
    { << "S", "T", "D" >>, << "C", "V" >>, << "M", "A" >>, << "R", "E", "F" >>, << "S", "U", "M" >>, << "H", "H", "V" >>,
      << "L", "L", "V" >>, << "I", "F" >>, << "C", "R", "O", "S", "S" >>, << "A", "B", "S" >>,
      << "M", "A", "X" >>, << "M", "I", "N" >>, << "C", "O", "U", "N", "T" >> }

\* DefaultFunctionRegistry.getFunction: the key of the function, <<>> for
\* undefined.
getFunction(name) ==
    IF toUpperCase(name) \in RegisteredNames THEN toUpperCase(name) ELSE <<>>

\* func(argValues) of the function registered under the key func.
Invoke(func, argValues) ==
    CASE func = << "M", "A" >> -> MA(argValues)
      [] func = << "R", "E", "F" >> -> REF(argValues)
      [] func = << "S", "U", "M" >> -> SUM(argValues)
      [] func = << "H", "H", "V" >> -> HHV(argValues)
      [] func = << "L", "L", "V" >> -> LLV(argValues)
      [] func = << "I", "F" >> -> FnIF(argValues)
      [] func = << "C", "R", "O", "S", "S" >> -> CROSS(argValues)
      [] func = << "A", "B", "S" >> -> ABS(argValues)
      [] func = << "M", "A", "X" >> -> MAX(argValues)
      [] func = << "M", "I", "N" >> -> MIN(argValues)
      [] func = << "C", "O", "U", "N", "T" >> -> COUNT(argValues)
      [] func = << "S", "T", "D" >> -> STD(argValues)
      [] func = << "C", "V" >> -> CV(argValues)

\* An evaluateFunctionCall that looks the function up before it compares the
\* lengths of the arguments.
CallFunction_LookupFirst(name, argValues) ==
    LET length == IF Len(argValues) = 0 THEN 0 ELSE Len(argValues[1])
    IN  IF getFunction(name) = <<>> THEN EvalError("Unknown function", name)
        ELSE IF \E k \in 1..Len(argValues) : Len(argValues[k]) # length
        THEN EvalError("requires arguments of same length", name)
        ELSE One({ IF r.ok THEN r ELSE EvalError(r.err, <<>>) :
                   r \in {Invoke(getFunction(name), argValues)} })

\* The rest of evaluateFunctionCall once the arguments are evaluated: the
\* length check, the lookup and the call.
CallFunction(name, argValues) ==
    LET length == IF Len(argValues) = 0 THEN 0 ELSE Len(argValues[1])
    IN  IF \E k \in 1..Len(argValues) : Len(argValues[k]) # length
        THEN EvalError("requires arguments of same length", name)
        ELSE IF getFunction(name) = <<>> THEN EvalError("Unknown function", name)
        ELSE One({ IF r.ok THEN r ELSE EvalError(r.err, <<>>) :
                   r \in {Invoke(getFunction(name), argValues)} })

RECURSIVE evaluateExpr(_, _, _)
RECURSIVE EvaluateArgs(_, _, _, _)

\* Evaluator.evaluateExpr with evaluateUnaryOp, evaluateBinaryOp and
\* evaluateFunctionCall: the series, or the Error thrown.
evaluateExpr(expr, environment, inputData) ==
    CASE expr.type = "Literal" -> Ok(expandNumber(expr.num, inputData))
      [] expr.type = "Variable" -> resolveVariable(expr.name, environment)
      [] expr.type = "UnaryOp" ->
            One({ IF ~v.ok THEN v ELSE Ok(UnaryValues(expr.operator, v.val)) :
                  v \in {evaluateExpr(expr.kids[1], environment, inputData)} })
      [] expr.type = "BinaryOp" ->
            One({ IF ~l.ok THEN l
                  ELSE One({ IF ~r.ok THEN r
                             ELSE One({ IF b.ok THEN b ELSE EvalError(b.err, <<>>) :
                                        b \in {BinaryValues(expr.operator, l.val, r.val)} }) :
                             r \in {evaluateExpr(expr.kids[2], environment, inputData)} }) :
                  l \in {evaluateExpr(expr.kids[1], environment, inputData)} })
      [] expr.type = "FunctionCall" ->
            One({ IF ~a.ok THEN a ELSE CallFunction(expr.name, a.val) :
                  a \in {EvaluateArgs(expr.kids, <<>>, environment, inputData)} })
      [] expr.type = "Grouped" -> evaluateExpr(expr.kids[1], environment, inputData)

\* args.map(arg => this.evaluateExpr(arg)): the arguments from left to right.
EvaluateArgs(args, argValues, environment, inputData) ==
    IF Len(argValues) = Len(args) THEN Ok(argValues)
    ELSE One({ IF ~v.ok THEN v
               ELSE EvaluateArgs(args, Append(argValues, v.val), environment, inputData) :
               v \in {evaluateExpr(args[Len(argValues) + 1], environment, inputData)} })

\* Evaluator.executeAssignment: the environment it leaves, or the Error.
executeAssignment(statement, environment, inputData) ==
    One({ IF ~value.ok THEN value
          ELSE Ok(EnvironmentSet(environment, statement.name, value.val)) :
          value \in {evaluateExpr(statement.expr, environment, inputData)} })

\* String(n) of a natural number.
RECURSIVE NumberToString(_)
NumberToString(n) ==
    IF n < 10 THEN << Digits[n + 1] >>
    ELSE NumberToString(n \div 10) \o << Digits[(n % 10) + 1] >>

OutputPrefix == << "o", "u", "t", "p", "u", "t", "_" >>

\* `statement.name || ...`: null and the empty string are falsy.
IsFalsyName(name) == name = NoName \/ name = <<>>

\* An executeOutput that numbers an unnamed output by the unnamed outputs
\* before it.
executeOutput_CountsUnnamed(statement, outputLines, environment, inputData) ==
    One({ IF ~data.ok THEN data
          ELSE Ok(createOutputLineResult(
                   IF IsFalsyName(statement.name)
                   THEN OutputPrefix
                        \o NumberToString(
                               Cardinality({j \in 1..Len(outputLines) :
                                   /\ Len(outputLines[j].name) > Len(OutputPrefix)
                                   /\ SubSeq(outputLines[j].name, 1, Len(OutputPrefix))
                                        = OutputPrefix}) + 1)
                   ELSE statement.name,
                   data.val, statement.styles)) :
          data \in {evaluateExpr(statement.expr, environment, inputData)} })

\* Evaluator.executeOutput: the OutputLineResult, or the Error.
executeOutput(statement, outputLines, environment, inputData) ==
    One({ IF ~data.ok THEN data
          ELSE Ok(createOutputLineResult(
                   IF IsFalsyName(statement.name)
                   THEN OutputPrefix \o NumberToString(Len(outputLines) + 1)
                   ELSE statement.name,
                   data.val, statement.styles)) :
          data \in {evaluateExpr(statement.expr, environment, inputData)} })

\* The loop of Evaluator.evaluateFormula from statement i on: the output
\* lines, or the error of the first statement that throws.
RECURSIVE StatementLoop(_, _, _, _, _)
StatementLoop(statements, i, environment, outputLines, inputData) ==
    IF i > Len(statements) THEN Ok(outputLines)
    ELSE IF statements[i].type = "Assignment"
    THEN One({ IF ~r.ok THEN r
               ELSE StatementLoop(statements, i + 1, r.val, outputLines, inputData) :
               r \in {executeAssignment(statements[i], environment, inputData)} })
    ELSE One({ IF ~r.ok THEN r
               ELSE StatementLoop(statements, i + 1, environment, Append(outputLines, r.val),
                                  inputData) :
               r \in {executeOutput(statements[i], outputLines, environment, inputData)} })

\* evaluateFormula on an Evaluator just made over inputData.
evaluateFormula(formula, inputData) ==
    StatementLoop(formula, 1, initializeBuiltinVariables(inputData), <<>>, inputData)

\* ------------------------------------------------------------------ lexer
\* createToken
createToken(tokenType, lexeme, line, column) ==
    [tokenType |-> tokenType, lexeme |-> lexeme, line |-> line, column |-> column]

\* new Lexer(input); position counts from 0.
Lexer(input) == [input |-> input, position |-> 0, line |-> 1, column |-> 1]

\* Lexer.isAtEnd
isAtEnd(lx) == lx.position >= Len(lx.input)

\* Lexer.peek
Lexer_peek(lx) == IF isAtEnd(lx) THEN "\\0" ELSE At(lx.input, lx.position)

\* Lexer.peekNext
peekNext(lx) ==
    IF lx.position + 1 >= Len(lx.input) THEN "\\0" ELSE At(lx.input, lx.position + 1)

\* Lexer.advance: the character and the lexer after the call.
Lexer_advance(lx) ==
    IF isAtEnd(lx) THEN << "\\0", lx >>
    ELSE << At(lx.input, lx.position),
            [lx EXCEPT !.position = lx.position + 1, !.column = lx.column + 1] >>

\* Lexer.isDigit
isDigit(char) == IsDigitChar(char)

\* Lexer.isAlpha
isAlpha(char) ==
    char \in { "a", "b", "c", "d", "e", "f", "g", "h", "i", "j", "k", "l", "m", "n", "o", "p",
               "q", "r", "s", "t", "u", "v", "w", "x", "y", "z", "A", "B", "C", "D", "E", "F",
               "G", "H", "I", "J", "K", "L", "M", "N", "O", "P", "Q", "R", "S", "T", "U", "V",
               "W", "X", "Y", "Z", "_" }

\* Lexer.isAlphaNumeric
isAlphaNumeric(char) == isAlpha(char) \/ isDigit(char)

\* lookupKeyword of token.ts
lookupKeyword(ident) ==
    CASE toUpperCase(ident) = << "I", "F" >> -> "If"
      [] toUpperCase(ident) = << "T", "H", "E", "N" >> -> "Then"
      [] toUpperCase(ident) = << "E", "L", "S", "E" >> -> "Else"
      [] toUpperCase(ident) = << "A", "N", "D" >> -> "And"
      [] toUpperCase(ident) = << "O", "R" >> -> "Or"
      [] toUpperCase(ident) = << "N", "O", "T" >> -> "Not"
      [] OTHER -> "Identifier"

\* Lexer.skipWhitespace
RECURSIVE skipWhitespace(_)
skipWhitespace(lx) ==
    IF ~isAtEnd(lx) /\ Lexer_peek(lx) \in {" ", "\t", "\r"}
    THEN One({ skipWhitespace(lx1) : lx1 \in {Lexer_advance(lx)[2]} })
    ELSE lx

\* Lexer.skipComment
RECURSIVE skipComment(_)
skipComment(lx) ==
    IF ~isAtEnd(lx) /\ Lexer_peek(lx) # "}"
    THEN One({ skipComment(lx1) :
               lx1 \in {Lexer_advance(IF Lexer_peek(lx) = "\n"
                                      THEN [lx EXCEPT !.line = lx.line + 1, !.column = 1]
                                      ELSE lx)[2]} })
    ELSE IF ~isAtEnd(lx) THEN Lexer_advance(lx)[2]
    ELSE lx

\* Lexer.consumeCharToken: the token and the lexer after the call.
consumeCharToken(lx, tokenType) ==
    << createToken(tokenType, << Lexer_advance(lx)[1] >>, lx.line, lx.column),
       Lexer_advance(lx)[2] >>

\* handleColon, handleGreater, handleLess and handleEqual when the second
\* character makes a two-character token of type tokenType.
TwoCharToken(lx, tokenType) ==
    LET a == Lexer_advance(lx)
        b == Lexer_advance(a[2])
    IN  << createToken(tokenType, << a[1], b[1] >>, lx.line, lx.column), b[2] >>

\* Lexer.handleColon
handleColon(lx) ==
    IF peekNext(lx) = "=" THEN TwoCharToken(lx, "ColonAssign")
    ELSE consumeCharToken(lx, "Colon")

\* Lexer.handleGreater
handleGreater(lx) ==
    IF peekNext(lx) = "=" THEN TwoCharToken(lx, "GtEq") ELSE consumeCharToken(lx, "Gt")

\* Lexer.handleLess
handleLess(lx) ==
    IF peekNext(lx) = "=" THEN TwoCharToken(lx, "LtEq")
    ELSE IF peekNext(lx) = ">" THEN TwoCharToken(lx, "NotEq")
    ELSE consumeCharToken(lx, "Lt")

\* Lexer.handleEqual
handleEqual(lx) ==
    IF peekNext(lx) = "=" THEN TwoCharToken(lx, "EqEq") ELSE consumeCharToken(lx, "EqEq")

\* Lexer.handleNewline: the token carries the line after the increment.
handleNewline(lx) ==
    LET a == Lexer_advance(lx)
    IN  << createToken("Newline", << a[1] >>, lx.line + 1, lx.column),
           [a[2] EXCEPT !.line = lx.line + 1, !.column = 1] >>

\* The `while (... isDigit(this.peek()))` loops of readNumber.
RECURSIVE ReadDigits(_, _)
ReadDigits(lx, lexeme) ==
    IF ~isAtEnd(lx) /\ isDigit(Lexer_peek(lx))
    THEN One({ ReadDigits(a[2], Append(lexeme, a[1])) : a \in {Lexer_advance(lx)} })
    ELSE << lexeme, lx >>

\* Lexer.readNumber
readNumber(lx) ==
    LET whole == ReadDigits(lx, <<>>)
        point == Lexer_advance(whole[2])
        all == IF ~isAtEnd(whole[2]) /\ Lexer_peek(whole[2]) = "."
               THEN ReadDigits(point[2], Append(whole[1], point[1]))
               ELSE whole
    IN  << createToken("Number", all[1], lx.line, lx.column), all[2] >>

\* The loop of readIdentifier.
RECURSIVE ReadAlphaNumeric(_, _)
ReadAlphaNumeric(lx, lexeme) ==
    IF ~isAtEnd(lx) /\ isAlphaNumeric(Lexer_peek(lx))
    THEN One({ ReadAlphaNumeric(a[2], Append(lexeme, a[1])) : a \in {Lexer_advance(lx)} })
    ELSE << lexeme, lx >>

\* Lexer.readIdentifier
readIdentifier(lx) ==
    LET all == ReadAlphaNumeric(lx, <<>>)
    IN  << createToken(lookupKeyword(all[1]), all[1], lx.line, lx.column), all[2] >>

\* The loop of readString.
RECURSIVE ReadStringChars(_, _)
ReadStringChars(lx, lexeme) ==
    IF ~isAtEnd(lx) /\ Lexer_peek(lx) # "\""
    THEN One({ ReadStringChars(a[2], Append(lexeme, a[1])) :
               a \in {Lexer_advance(IF Lexer_peek(lx) = "\n"
                                    THEN [lx EXCEPT !.line = lx.line + 1, !.column = 1]
                                    ELSE lx)} })
    ELSE << lexeme, lx >>

\* Lexer.readString
readString(lx) ==
    LET all == ReadStringChars(Lexer_advance(lx)[2], <<>>)
    IN  IF isAtEnd(all[2])
        THEN << createToken("Illegal", all[1], all[2].line, lx.column), all[2] >>
        ELSE << createToken("String", all[1], all[2].line, lx.column),
                Lexer_advance(all[2])[2] >>

\* The type of the token a single character makes.
CharTokenType(char) ==
    CASE char = "(" -> "LParen"
      [] char = ")" -> "RParen"
      [] char = "," -> "Comma"
      [] char = ";" -> "Semicolon"
      [] char = "+" -> "Plus"
      [] char = "-" -> "Minus"
      [] char = "*" -> "Star"
      [] char = "/" -> "Slash"

\* The last line of nextToken: the Illegal token of the character at the
\* position, which stays where it is.
IllegalChar(lx) == << createToken("Illegal", << Lexer_peek(lx) >>, lx.line, lx.column), lx >>

\* Lexer.nextToken: the token, the lexer after the call, and the position
\* of the character the token was begun at.
RECURSIVE Lexer_nextToken(_)
Lexer_nextToken(lx0) ==
    One({ IF isAtEnd(lx) THEN << createToken("Eof", <<>>, lx.line, lx.column), lx, lx.position >>
          ELSE One({ CASE char \in {"(", ")", ",", ";", "+", "-", "*", "/"} ->
                            consumeCharToken(lx, CharTokenType(char)) \o << lx.position >>
                       [] char = ":" -> handleColon(lx) \o << lx.position >>
                       [] char = ">" -> handleGreater(lx) \o << lx.position >>
                       [] char = "<" -> handleLess(lx) \o << lx.position >>
                       [] char = "=" -> handleEqual(lx) \o << lx.position >>
                       [] char = "\"" -> readString(lx) \o << lx.position >>
                       [] char = "\n" -> handleNewline(lx) \o << lx.position >>
                       [] char = "{" -> Lexer_nextToken(skipComment(lx))
                       [] isDigit(char) -> readNumber(lx) \o << lx.position >>
                       [] isAlpha(char) -> readIdentifier(lx) \o << lx.position >>
                       [] OTHER -> IllegalChar(lx) \o << lx.position >> :
                     char \in {Lexer_peek(lx)} }) :
          lx \in {skipWhitespace(lx0)} })

\* --------------------------------------------------------------- registry
\* A Map<string, FunctionType>: its entries in insertion order.
MapHas(map, key) == \E k \in 1..Len(map) : map[k].key = key

\* Map.get; "undefined" when the key is absent.
MapGet(map, key) ==
    IF MapHas(map, key) THEN map[CHOOSE k \in 1..Len(map) : map[k].key = key].value
    ELSE "undefined"

\* Map.set: the value of a present key is replaced where it stands, a new
\* key is added at the end.
MapSet(map, key, value) ==
    IF MapHas(map, key)
    THEN [k \in 1..Len(map) |-> IF map[k].key = key THEN [key |-> key, value |-> value]
                                 ELSE map[k]]
    ELSE Append(map, [key |-> key, value |-> value])

\* Map.delete: the map without the key.
MapDelete(map, key) == SelectSeq(map, LAMBDA e : e.key # key)

\* typeof of the values registered here.
TypeOf(func) == IF func = "notAFunction" THEN "object" ELSE "function"

\* DefaultFunctionRegistry.registerFunction: the map after the call, or the
\* Error thrown.
registerFunction(functions, name, func) ==
    IF name = <<>> THEN Throw("Function name must be a non-empty string")
    ELSE IF TypeOf(func) # "function" THEN Throw("Function implementation must be a function")
    ELSE Ok(MapSet(functions, toUpperCase(name), func))

\* An unregisterFunction that deletes the name as it is written.
unregisterFunction_AsWritten(functions, name) ==
    << MapHas(functions, name), MapDelete(functions, name) >>

\* DefaultFunctionRegistry.unregisterFunction: what Map.delete returns, and
\* the map after the call.
unregisterFunction(functions, name) ==
    << MapHas(functions, toUpperCase(name)), MapDelete(functions, toUpperCase(name)) >>

\* DefaultFunctionRegistry.getFunction on the map functions.
Registry_getFunction(functions, name) == MapGet(functions, toUpperCase(name))

\* DefaultFunctionRegistry.hasFunction
hasFunction(functions, name) == MapHas(functions, toUpperCase(name))

\* DefaultFunctionRegistry.getAllFunctionNames
getAllFunctionNames(functions) == [k \in 1..Len(functions) |-> functions[k].key]

\* The names initializeBuiltinFunctions registers, in its order.
BuiltinFunctionNames ==
    << << "M", "A" >>, << "R", "E", "F" >>, << "S", "U", "M" >>, << "H", "H", "V" >>,
       << "L", "L", "V" >>, << "I", "F" >>, << "C", "R", "O", "S", "S" >>, << "A", "B", "S" >>,
       << "M", "A", "X" >>, << "M", "I", "N" >>, << "C", "O", "U", "N", "T" >>,
       << "S", "T", "D" >>, << "C", "V" >> >>

\* DefaultFunctionRegistry.initializeBuiltinFunctions: the map the
\* constructor leaves.
RECURSIVE initializeBuiltinFunctions(_, _)
initializeBuiltinFunctions(functions, k) ==
    IF k > Len(BuiltinFunctionNames) THEN functions
    ELSE One({ initializeBuiltinFunctions(r.val, k + 1) :
               r \in {registerFunction(functions, BuiltinFunctionNames[k], "builtin")} })

\* ------------------------------------------------------------ custom data
\* A CustomStockData: the six series of the interface and, in the order
\* of Object.entries, the other keys of data with their values.
CustomStockData(symbol, date, opens, highs, lows, closes, volumes, extra) ==
    [symbol |-> symbol,
     data |-> [date |-> date, opens |-> opens, highs |-> highs, lows |-> lows,
               closes |-> closes, volumes |-> volumes, extra |-> extra]]

\* A value of a custom key: an array with its items, or something else.
JsArray(items) == [isArray |-> TRUE, items |-> items]
JsOther == [isArray |-> FALSE, items |-> <<>>]

\* A TechnicalIndicator
TechnicalIndicator(name, data) == [name |-> name, data |-> data]

\* The message of an error a stock's evaluation ended with.
StockError(stockSymbol, err) == [stockSymbol |-> stockSymbol, error |-> err]

\* CustomDataEvaluator.addStockData: the stockDataMap after the call, or
\* the error (data is always given here).
addStockData(stockDataMap, stock) ==
    IF stock.symbol = "" THEN Throw(<< "Stock data must have symbol and data fields", "" >>)
    ELSE IF \E arr \in { stock.data.opens, stock.data.highs, stock.data.lows,
                          stock.data.closes, stock.data.volumes } :
               Len(arr) # Len(stock.data.date)
    THEN Throw(<< "All data arrays must have the same length for stock", stock.symbol >>)
    ELSE Ok(MapSet(stockDataMap, stock.symbol, stock))

\* CustomDataEvaluator.addIndicator
addIndicator(indicatorMap, indicator) ==
    IF indicator.name = <<>> THEN Throw(<< "Indicator must have name and data fields", "" >>)
    ELSE Ok(MapSet(indicatorMap, indicator.name, indicator))

\* CustomDataEvaluator.addMultipleStocks from stock i on: the map when the
\* loop ends, and the error if it ended with one.
RECURSIVE addMultipleStocks(_, _, _)
addMultipleStocks(stockDataMap, stocks, i) ==
    IF i > Len(stocks) THEN [map |-> stockDataMap, thrown |-> Ok(<<>>)]
    ELSE One({ IF ~r.ok THEN [map |-> stockDataMap, thrown |-> r]
               ELSE addMultipleStocks(r.val, stocks, i + 1) :
               r \in {addStockData(stockDataMap, stocks[i])} })

\* CustomDataEvaluator.addMultipleIndicators from indicator i on.
RECURSIVE addMultipleIndicators(_, _, _)
addMultipleIndicators(indicatorMap, indicators, i) ==
    IF i > Len(indicators) THEN [map |-> indicatorMap, thrown |-> Ok(<<>>)]
    ELSE One({ IF ~r.ok THEN [map |-> indicatorMap, thrown |-> r]
               ELSE addMultipleIndicators(r.val, indicators, i + 1) :
               r \in {addIndicator(indicatorMap, indicators[i])} })

\* The loop over Object.entries(stockData.data) from the custom key i on.
RECURSIVE AddCustomKeys(_, _, _)
AddCustomKeys(customEnvironment, extra, i) ==
    IF i > Len(extra) THEN customEnvironment
    ELSE AddCustomKeys(
             IF extra[i].value.isArray
                /\ \A k \in 1..Len(extra[i].value.items) : extra[i].value.items[k] # Null
             THEN EnvironmentSet(customEnvironment, toUpperCase(extra[i].key),
                                 extra[i].value.items)
             ELSE customEnvironment,
             extra, i + 1)

\* The loop over getAllIndicatorNames() from the indicator i on.
RECURSIVE AddIndicators(_, _, _, _)
AddIndicators(customEnvironment, indicatorMap, inputData, i) ==
    IF i > Len(indicatorMap) THEN customEnvironment
    ELSE AddIndicators(
             IF Len(indicatorMap[i].value.data) = inputData.numBars
             THEN EnvironmentSet(customEnvironment, toUpperCase(indicatorMap[i].key),
                                 indicatorMap[i].value.data)
             ELSE customEnvironment,
             indicatorMap, inputData, i + 1)

\* The customEnvironment evaluateCombinedFormula builds for a stock.
CustomEnvironment(stockData, indicatorMap, inputData) ==
    AddIndicators(
        AddCustomKeys(initializeBuiltinVariables(inputData), stockData.data.extra, 1),
        indicatorMap, inputData, 1)

\* CustomDataEvaluator.createCustomEvaluator and the evaluateFormula call on
\* the Evaluator it returns: new Evaluator(inputData); the custom
\* environment is not passed on.
createCustomEvaluator(formula, inputData, customEnvironment) ==
    evaluateFormula(formula, inputData)

\* The body of the try block for one stock: the output lines or the error.
EvaluateStock(stockData, indicatorMap, formula) ==
    One({ createCustomEvaluator(formula, inputData,
                                CustomEnvironment(stockData, indicatorMap, inputData)) :
          inputData \in { InputData(stockData.data.opens, stockData.data.highs,
                                    stockData.data.lows, stockData.data.closes,
                                    stockData.data.volumes) } })

\* The loop over the output lines of one stock from line i on.
RECURSIVE PushResults(_, _, _, _, _)
PushResults(results, stockSymbol, lines, outputNames, i) ==
    IF i > Len(lines) THEN results
    ELSE PushResults(
             Append(results,
                    [stockSymbol |-> stockSymbol,
                     outputName |-> IF Len(results) < Len(outputNames)
                                       /\ outputNames[Len(results) + 1] # <<>>
                                    THEN outputNames[Len(results) + 1]
                                    ELSE lines[i].name,
                     data |-> lines[i].data]),
             stockSymbol, lines, outputNames, i + 1)

\* The loop over getAllStockSymbols() from the stock i on.
RECURSIVE StockLoop(_, _, _, _, _, _)
StockLoop(stockDataMap, indicatorMap, request, i, results, errors) ==
    IF i > Len(stockDataMap) THEN [results |-> results, errors |-> errors]
    ELSE One({ IF r.ok
               THEN StockLoop(stockDataMap, indicatorMap, request, i + 1,
                              PushResults(results, stockDataMap[i].key, r.val,
                                          request.outputNames, 1),
                              errors)
               ELSE StockLoop(stockDataMap, indicatorMap, request, i + 1, results,
                              Append(errors, StockError(stockDataMap[i].key, r.err))) :
               r \in {EvaluateStock(stockDataMap[i].value, indicatorMap, request.formula)} })

\* CustomDataEvaluator.evaluateCombinedFormula: the two maps after the call
\* and what it returned or threw.
evaluateCombinedFormula(stockDataMap, indicatorMap, request) ==
    One({ IF ~st.thrown.ok
          THEN [stockDataMap |-> st.map, indicatorMap |-> indicatorMap, result |-> st.thrown]
          ELSE One({ IF ~in.thrown.ok
                     THEN [stockDataMap |-> st.map, indicatorMap |-> in.map,
                           result |-> in.thrown]
                     ELSE [stockDataMap |-> st.map, indicatorMap |-> in.map,
                           result |-> Ok(StockLoop(st.map, in.map, request, 1, <<>>, <<>>))] :
                     in \in {addMultipleIndicators(indicatorMap, request.indicators, 1)} }) :
          st \in {addMultipleStocks(stockDataMap, request.stocks, 1)} })

\* ------------------------------------------------------------------- state
VARIABLES
    fnName,     \* the built-in or binary operator last applied ("none" at start)
    fnArgs,     \* the argument series it was applied to
    fnResult    \* what it returned or threw

VARIABLES
    pKind,      \* "none" before parsing, then which input was drawn
    pTokens,    \* the tokens the lexer delivers before Eof
    pResult     \* what parseFormula returned or threw

\* One Evaluator and the evaluateFormula call it is in.
VARIABLES
    evPhase,      \* "unbuilt", "ready" (built, no call running) or "running"
    inputData,    \* Evaluator.inputData
    environment,  \* Evaluator.environment
    outputLines,  \* Evaluator.outputLines
    formula,      \* the statements of the Formula passed to the call
    stmtIndex,    \* how many of them the loop of evaluateFormula has taken
    evResult,     \* how the last call ended: the FormulaResult or the Error
    evCalls,      \* the evaluateFormula calls made so far
    linesId,      \* which array object Evaluator.outputLines refers to
    returnedIds,  \* the array objects the FormulaResults returned so far refer to
    resultChanged,\* whether an array of a returned FormulaResult was written since
    staleLines    \* how many lines the call before had left when this call began

VARIABLES
    functions,  \* DefaultFunctionRegistry.functions
    regLog,     \* the registerFunction and unregisterFunction calls made, in order
    regReturn   \* what the last of them returned or threw

\* A LexerIterator and the next() and peek() calls made on it.
VARIABLES
    itPhase,    \* "none" before the iterator is made, then "made"
    itState,    \* the lexer behind it and LexerIterator.nextToken
    itLog       \* the calls made, each with the IteratorResult it returned

\* A Lexer and the nextToken() calls made on it.
VARIABLES
    lxPhase,    \* "none" before the lexer is made, then "made"
    lxState,    \* the Lexer object
    lxLog       \* the calls made: the token returned, where it began, and the
                \* lexer's position before and after the call

\* A CustomDataEvaluator and the last evaluateCombinedFormula call on it.
VARIABLES
    cdStocks,       \* stockDataMap
    cdIndicators,   \* indicatorMap
    cdRequest,      \* the request of the last evaluateCombinedFormula call
    cdResult,       \* what that call returned or threw
    cdCalls,        \* the calls made on the object
    cdLast          \* the method called last

\* Two Evaluators over one InputData object, and the arrays they hold.
VARIABLES
    pairHeap,       \* the array objects: 1..5 are the series of the InputData
    pairEnvs,       \* the Environment objects, each from names to arrays
    pairEv,         \* the two Evaluators
    interleaved     \* a statement ran while the other Evaluator was in its loop

\* One getBatchStockData call and the limiter EastMoneyDataAdapter.rateLimiter.
VARIABLES
    batchPhase,     \* "idle", "called", then "resolved" or "rejected"
    batchSymbols,   \* per symbol of the call, whether isSupported accepts it
    limQueue,       \* the functions waiting in the limiter, in order
    awaiting,       \* task functions holding a slot while they await fetchData
    fetching,       \* fetchData functions holding a slot, their request in flight
    settled,        \* tasks whose promise is settled
    succeeded       \* tasks settled with data

fnVars == << fnName, fnArgs, fnResult >>
regVars == << functions, regLog, regReturn >>
itVars == << itPhase, itState, itLog >>
lxVars == << lxPhase, lxState, lxLog >>
cdVars == << cdStocks, cdIndicators, cdRequest, cdResult, cdCalls, cdLast >>
pairVars == << pairHeap, pairEnvs, pairEv, interleaved >>
batchVars == << batchPhase, batchSymbols, limQueue, awaiting, fetching, settled, succeeded >>
laterVars == << itVars, lxVars, cdVars, pairVars, batchVars >>
pVars == << pKind, pTokens, pResult >>
heapVars == << linesId, returnedIds, resultChanged, staleLines >>
evVars == << evPhase, inputData, environment, outputLines, formula, stmtIndex, evResult,
             evCalls, heapVars >>
vars == << fnName, fnArgs, fnResult, pKind, pTokens, pResult, evPhase, inputData,
           environment, outputLines, formula, stmtIndex, evResult, evCalls, linesId,
           returnedIds, resultChanged, staleLines, functions, regLog, regReturn,
           itPhase, itState, itLog, lxPhase, lxState, lxLog, cdStocks, cdIndicators,
           cdRequest, cdResult, cdCalls, cdLast, pairHeap, pairEnvs, pairEv, interleaved,
           batchPhase, batchSymbols, limQueue, awaiting, fetching, settled, succeeded >>
coreVars == << fnVars, pVars, evVars, regVars >>
exceptIt == << coreVars, lxVars, cdVars, pairVars, batchVars >>
exceptLx == << coreVars, itVars, cdVars, pairVars, batchVars >>
exceptCd == << coreVars, itVars, lxVars, pairVars, batchVars >>
exceptPair == << coreVars, itVars, lxVars, cdVars, batchVars >>
exceptBatch == << coreVars, itVars, lxVars, cdVars, pairVars >>

FnIdle == fnName = "none" /\ fnArgs = <<>> /\ fnResult = Ok(<<>>)

PIdle == pKind = "none" /\ pTokens = <<>> /\ pResult = Parsed(<<>>, NewParser(<<>>))

\* How a call ended.
Pending == [kind |-> "none", lines |-> <<>>, err |-> <<>>]
Returned(lines) == [kind |-> "returned", lines |-> lines, err |-> <<>>]
Thrown(err) == [kind |-> "thrown", lines |-> <<>>, err |-> err]

EvUnbuilt ==
    /\ evPhase = "unbuilt"
    /\ inputData = InputData(<<>>, <<>>, <<>>, <<>>, <<>>)
    /\ environment = <<>>
    /\ outputLines = <<>>
    /\ formula = <<>>
    /\ stmtIndex = 0
    /\ evResult = Pending
    /\ evCalls = 0
    /\ linesId = 0
    /\ returnedIds = {}
    /\ resultChanged = FALSE
    /\ staleLines = 0

\* new DefaultFunctionRegistry()
RegistryBuilt ==
    /\ functions = initializeBuiltinFunctions(<<>>, 1)
    /\ regLog = <<>>
    /\ regReturn = "none"

\* No LexerIterator yet.
ItNone ==
    /\ itPhase = "none"
    /\ itState = ParserState(<<>>, 1, NullTok, NullTok)
    /\ itLog = <<>>

\* No Lexer yet.
LxNone ==
    /\ lxPhase = "none"
    /\ lxState = Lexer(<<>>)
    /\ lxLog = <<>>

\* A CombinedCalculationRequest; no outputNames is the empty list.
CombinedCalculationRequest(stocks, indicators, statements, outputNames) ==
    [stocks |-> stocks, indicators |-> indicators, formula |-> statements,
     outputNames |-> outputNames]

\* new CustomDataEvaluator(): both maps empty, nothing evaluated yet.
CdNew ==
    /\ cdStocks = <<>>
    /\ cdIndicators = <<>>
    /\ cdRequest = CombinedCalculationRequest(<<>>, <<>>, <<>>, <<>>)
    /\ cdResult = Ok([results |-> <<>>, errors |-> <<>>])
    /\ cdCalls = 0
    /\ cdLast = "constructor"

\* An Evaluator object: its phase, the Environment it holds, and the
\* evaluateFormula call on it.
EvaluatorObject(phase, env, statements, index, lines, result) ==
    [phase |-> phase, env |-> env, formula |-> statements, stmtIndex |-> index,
     outputLines |-> lines, result |-> result]

\* No Evaluator made yet.
PairNone ==
    /\ pairHeap = <<>>
    /\ pairEnvs = <<>>
    /\ pairEv = [e \in 1..2 |-> EvaluatorObject("none", 0, <<>>, 0, <<>>, Pending)]
    /\ interleaved = FALSE

\* No getBatchStockData call yet, the limiter empty.
BatchIdle ==
    /\ batchPhase = "idle"
    /\ batchSymbols = <<>>
    /\ limQueue = <<>>
    /\ awaiting = 0
    /\ fetching = 0
    /\ settled = 0
    /\ succeeded = 0

LaterInit == ItNone /\ LxNone /\ CdNew /\ PairNone /\ BatchIdle

Init == FnIdle /\ PIdle /\ EvUnbuilt /\ RegistryBuilt /\ LaterInit

\* --------------------------------------------- inputs of the built-in calls
Elems == {Null, Num(-1), Num(0), Num(1), Num(2)}
SmallElems == {Null, Num(0), Num(1), Num(2)}
CondElems == {Null, Num(-1), Num(0), Num(2)}
BranchElems == {Null, Num(1), Num(2)}

SeriesUpTo(elems, n) == UNION {[1..m -> elems] : m \in 0..n}

\* closes of the documented scenarios: [11, 12, 13, 14, 15]
ExampleCloses == << Num(11), Num(12), Num(13), Num(14), Num(15) >>

WindowData == SeriesUpTo(Elems, MaxBars) \cup {ExampleCloses}

\* A literal scalar argument reaches a built-in broadcast to numBars elements
\* (Evaluator.expandNumber); a direct caller may pass a one-element series.
ScalarArgs(n, data) == {Fill(Num(n), Len(data)), Fill(Num(n), 1)}

\* Each call is made once, from the idle state, on inputs drawn here.
CallMA ==
    /\ fnName = "none"
    /\ UNCHANGED << pVars, evVars, regVars, laterVars >>
    /\ \E data \in WindowData, n \in 0..MaxPeriod : \E p \in ScalarArgs(n, data) :
        /\ fnName' = "MA"
        /\ fnArgs' = << data, p >>
        /\ fnResult' = MA(<< data, p >>)

CallSUM ==
    /\ fnName = "none"
    /\ UNCHANGED << pVars, evVars, regVars, laterVars >>
    /\ \E data \in WindowData, n \in 0..MaxPeriod : \E p \in ScalarArgs(n, data) :
        /\ fnName' = "SUM"
        /\ fnArgs' = << data, p >>
        /\ fnResult' = SUM(<< data, p >>)

CallHHV ==
    /\ fnName = "none"
    /\ UNCHANGED << pVars, evVars, regVars, laterVars >>
    /\ \E data \in WindowData, n \in 0..MaxPeriod : \E p \in ScalarArgs(n, data) :
        /\ fnName' = "HHV"
        /\ fnArgs' = << data, p >>
        /\ fnResult' = HHV(<< data, p >>)

CallLLV ==
    /\ fnName = "none"
    /\ UNCHANGED << pVars, evVars, regVars, laterVars >>
    /\ \E data \in WindowData, n \in 0..MaxPeriod : \E p \in ScalarArgs(n, data) :
        /\ fnName' = "LLV"
        /\ fnArgs' = << data, p >>
        /\ fnResult' = LLV(<< data, p >>)

CallCOUNT ==
    /\ fnName = "none"
    /\ UNCHANGED << pVars, evVars, regVars, laterVars >>
    /\ \E data \in WindowData, n \in 0..MaxPeriod : \E p \in ScalarArgs(n, data) :
        /\ fnName' = "COUNT"
        /\ fnArgs' = << data, p >>
        /\ fnResult' = COUNT(<< data, p >>)

CallREF ==
    /\ fnName = "none"
    /\ UNCHANGED << pVars, evVars, regVars, laterVars >>
    /\ \E data \in WindowData, n \in -1..MaxPeriod : \E p \in ScalarArgs(n, data) :
        /\ fnName' = "REF"
        /\ fnArgs' = << data, p >>
        /\ fnResult' = REF(<< data, p >>)

\* IF(C > 12, 1, 0) over the documented closes.
ExampleIfArgs ==
    << BinaryValues("Gt", ExampleCloses, Fill(Num(12), 5)).val,
       Fill(Num(1), 5), Fill(Num(0), 5) >>

CallIF ==
    /\ fnName = "none"
    /\ UNCHANGED << pVars, evVars, regVars, laterVars >>
    /\ \/ \E m \in 0..MaxElemBars :
            \E c \in [1..m -> CondElems], t \in [1..m -> BranchElems],
               f \in [1..m -> BranchElems] :
                /\ fnName' = "IF"
                /\ fnArgs' = << c, t, f >>
                /\ fnResult' = FnIF(<< c, t, f >>)
       \/ /\ fnName' = "IF"
          /\ fnArgs' = ExampleIfArgs
          /\ fnResult' = FnIF(ExampleIfArgs)

CallCROSS ==
    /\ fnName = "none"
    /\ UNCHANGED << pVars, evVars, regVars, laterVars >>
    /\ \E m \in 0..MaxBars : \E a \in [1..m -> SmallElems], b \in [1..m -> SmallElems] :
        /\ fnName' = "CROSS"
        /\ fnArgs' = << a, b >>
        /\ fnResult' = CROSS(<< a, b >>)

ApplyBinaryOp ==
    /\ fnName = "none"
    /\ UNCHANGED << pVars, evVars, regVars, laterVars >>
    /\ \E operator \in BinaryOperator :
        \E l \in SeriesUpTo(CondElems, MaxElemBars),
           r \in SeriesUpTo(CondElems, MaxElemBars) :
            /\ fnName' = operator
            /\ fnArgs' = << l, r >>
            /\ fnResult' = BinaryValues(operator, l, r)

\* The default built-ins that read a scalar argument.
ScalarBuiltins == {"MA", "SUM", "HHV", "LLV", "COUNT", "STD", "CV", "REF"}

ApplyScalarBuiltin(fn, args) == IF fn = "REF" THEN REF(args) ELSE Windowed(fn, args)

ScalarElems == {Null, Num(1), Num(2)}

\* A direct call of a registered function with the scalar argument left out,
\* or with any series for it: empty, null at element 0, anything behind it.
CallScalarBuiltin ==
    /\ fnName = "none"
    /\ UNCHANGED << pVars, evVars, regVars, laterVars >>
    /\ \E fn \in ScalarBuiltins, data \in SeriesUpTo({Null, Num(1), Num(3)}, MaxElemBars) :
        \E args \in {<< data >>} \cup {<< data, p >> : p \in SeriesUpTo(ScalarElems, MaxElemBars)} :
            /\ fnName' = "scalar"
            /\ fnArgs' = << fn, args >>
            /\ fnResult' = ApplyScalarBuiltin(fn, args)

\* The evaluator of the test 'should throw error for function arguments
\* with different lengths': two bars, and Var1 and Var2 set by hand to
\* series of three and of two elements.
TestInputData ==
    InputData(<< Num(10), Num(11) >>, << Num(12), Num(13) >>, << Num(9), Num(10) >>,
              << Num(11), Num(12) >>, << Num(100), Num(200) >>)

Var1 == << "V", "a", "r", "1" >>
Var2 == << "V", "a", "r", "2" >>

TestEnvironment ==
    EnvironmentSet(EnvironmentSet(initializeBuiltinVariables(TestInputData),
                                  Var1, << Num(1), Num(2), Num(3) >>),
                   Var2, << Num(1), Num(2) >>)

\* The arguments drawn: the two variables, two names that are not bound and
\* the literal 1.
ArgsDrawn ==
    { createVariableExpr(Var1), createVariableExpr(Var2),
      createVariableExpr(<< "V", "a", "r", "3" >>), createVariableExpr(<< "N", "o" >>),
      createLiteralExpr(Num(1)) }

\* A name that is not registered and one that is.
FunctionNamesDrawn == { << "T", "E", "S", "T", "_", "F", "U", "N", "C" >>, << "M", "A", "X" >> }

\* evaluator.evaluateFunctionCall(name, args) on that evaluator.
CallEvaluateFunctionCall ==
    /\ fnName = "none"
    /\ UNCHANGED << pVars, evVars, regVars, laterVars >>
    /\ \E name \in FunctionNamesDrawn, m \in 0..MaxCallArgs : \E args \in [1..m -> ArgsDrawn] :
        /\ fnName' = "call"
        /\ fnArgs' = << name, args >>
        /\ fnResult' = evaluateExpr(createFunctionCallExpr(name, args), TestEnvironment,
                                    TestInputData)

FnNext ==
    \/ CallEvaluateFunctionCall
    \/ CallScalarBuiltin
    \/ CallMA
    \/ CallSUM
    \/ CallHHV
    \/ CallLLV
    \/ CallCOUNT
    \/ CallREF
    \/ CallIF
    \/ CallCROSS
    \/ ApplyBinaryOp

\* The built-ins and operators applied to every drawn input.
SpecFn == Init /\ [][FnNext]_vars

\* ------------------------------------------------- inputs of the parser
\* The lexeme the lexer gives each fixed token.
Lexeme(tokenType) ==
    CASE tokenType = "Plus" -> << "+" >>
      [] tokenType = "Minus" -> << "-" >>
      [] tokenType = "Star" -> << "*" >>
      [] tokenType = "Slash" -> << "/" >>
      [] tokenType = "Gt" -> << ">" >>
      [] tokenType = "Lt" -> << "<" >>
      [] tokenType = "GtEq" -> << ">", "=" >>
      [] tokenType = "LtEq" -> << "<", "=" >>
      [] tokenType = "EqEq" -> << "=", "=" >>
      [] tokenType = "NotEq" -> << "<", ">" >>
      [] tokenType = "And" -> << "A", "N", "D" >>
      [] tokenType = "Or" -> << "O", "R" >>
      [] tokenType = "Not" -> << "N", "O", "T" >>
      [] tokenType = "LParen" -> << "(" >>
      [] tokenType = "RParen" -> << ")" >>
      [] tokenType = "Comma" -> << "," >>
      [] tokenType = "Colon" -> << ":" >>
      [] tokenType = "ColonAssign" -> << ":", "=" >>
      [] tokenType = "Newline" -> << "\n" >>
      [] tokenType = "Semicolon" -> << ";" >>

Fixed(tokenType) == Tok(tokenType, Lexeme(tokenType))
Ident(text) == Tok("Identifier", text)
Number(text) == Tok("Number", text)

\* The i-th operand of a drawn expression: X1, X2, ...
Operand(i) == Ident(<< "X", Digits[i + 1] >>)

\* One infix token of each binding level, and `-` that is also a prefix.
InfixDrawn == {"Or", "And", "Gt", "Plus", "Minus", "Star"}
PrefixDrawn == {"none", "Minus", "Not"}

\* The groups a drawn expression may hold: none, or `(` before operand g[1]
\* and `)` after operand g[2].
Groups(n) == {<< 0, 0 >>} \cup {g \in (1..n) \X (1..n) : g[1] =< g[2]}

\* The tokens of  [pre1] X1 op1 [pre2] X2 ... , operands from i on.
RECURSIVE ExprTokens(_, _, _, _, _)
ExprTokens(i, n, pre, ops, g) ==
    IF i > n THEN <<>>
    ELSE (IF i > 1 THEN << Fixed(ops[i - 1]) >> ELSE <<>>)
         \o (IF pre[i] = "none" THEN <<>> ELSE << Fixed(pre[i]) >>)
         \o (IF g[1] = i THEN << Fixed("LParen") >> ELSE <<>>)
         \o << Operand(i) >>
         \o (IF g[2] = i THEN << Fixed("RParen") >> ELSE <<>>)
         \o ExprTokens(i + 1, n, pre, ops, g)

\* The formulas of the tests and of the claims, as the lexer tokenises them.
ExampleInputs ==
    { \* PRECEDENCE: C + H * 2
      << Ident(<< "P" >>), Fixed("Colon"), Ident(<< "C" >>), Fixed("Plus"),
         Ident(<< "H" >>), Fixed("Star"), Number(<< "2" >>) >>,
      \* MA5: MA(C, 5)
      << Ident(<< "M", "A", "5" >>), Fixed("Colon"), Ident(<< "M", "A" >>), Fixed("LParen"),
         Ident(<< "C" >>), Fixed("Comma"), Number(<< "5" >>), Fixed("RParen") >>,
      \* VAR := 10
      << Ident(<< "V", "A", "R" >>), Fixed("ColonAssign"), Number(<< "1", "0" >>) >>,
      \* STYLED: C, COLORSTICK
      << Ident(<< "S" >>), Fixed("Colon"), Ident(<< "C" >>), Fixed("Comma"),
         Ident(<< "C", "S" >>) >>,
      \* if(C > 1.5, 1, 0)
      << Tok("If", << "i", "f" >>), Fixed("LParen"), Ident(<< "C" >>), Fixed("Gt"),
         Number(<< "1", ".", "5" >>), Fixed("Comma"), Number(<< "1" >>), Fixed("Comma"),
         Number(<< "0" >>), Fixed("RParen") >> }

StmtAlphabet ==
    { Ident(<< "A" >>), Ident(<< "B" >>), Fixed("ColonAssign"), Fixed("Colon"),
      Fixed("Comma"), Fixed("Newline"), Fixed("Minus") }

\* createParser(input).parseFormula() on an expression drawn by shape.
ParseExpressionInput ==
    /\ pKind = "none"
    /\ UNCHANGED << fnVars, evVars, regVars, laterVars >>
    /\ \E n \in 1..MaxOperands :
        \E pre \in [1..n -> PrefixDrawn], ops \in [1..(n - 1) -> InfixDrawn], g \in Groups(n) :
            /\ pKind' = "expression"
            /\ pTokens' = ExprTokens(1, n, pre, ops, g)
            /\ pResult' = parseFormula(NewParser(pTokens'))

\* createParser(input).parseFormula() on any token list over StmtAlphabet.
ParseStatementsInput ==
    /\ pKind = "none"
    /\ UNCHANGED << fnVars, evVars, regVars, laterVars >>
    /\ \E m \in 0..MaxToks : \E toks \in [1..m -> StmtAlphabet] :
        /\ pKind' = "statements"
        /\ pTokens' = toks
        /\ pResult' = parseFormula(NewParser(toks))

\* createParser(input).parseFormula() on a documented formula.
ParseExampleInput ==
    /\ pKind = "none"
    /\ UNCHANGED << fnVars, evVars, regVars, laterVars >>
    /\ \E toks \in ExampleInputs :
        /\ pKind' = "example"
        /\ pTokens' = toks
        /\ pResult' = parseFormula(NewParser(toks))

\* An unrecognised character, as the lexer delivers it.
Illegal(text) == Tok("Illegal", text)

\* Tokens that open, close and end things, the Illegal token among them.
TokenAlphabet ==
    { Ident(<< "A" >>), Fixed("Colon"), Fixed("Comma"), Fixed("LParen"), Fixed("RParen"),
      Fixed("Semicolon"), Illegal(<< "?" >>) }

\* MA5: MA(C, 5
UnclosedCall ==
    << Ident(<< "M", "A", "5" >>), Fixed("Colon"), Ident(<< "M", "A" >>), Fixed("LParen"),
       Ident(<< "C" >>), Fixed("Comma"), Number(<< "5" >>) >>

\* X: IF(A B, C)
IfWithoutComma ==
    << Ident(<< "X" >>), Fixed("Colon"), Tok("If", << "I", "F" >>), Fixed("LParen"),
       Ident(<< "A" >>), Ident(<< "B" >>), Fixed("Comma"), Ident(<< "C" >>), Fixed("RParen") >>

\* MA5: MA(C, 5); SIGNAL: CROSS(C, MA5)
SemicolonSeparated ==
    << Ident(<< "M", "A", "5" >>), Fixed("Colon"), Ident(<< "M", "A" >>), Fixed("LParen"),
       Ident(<< "C" >>), Fixed("Comma"), Number(<< "5" >>), Fixed("RParen"),
       Fixed("Semicolon"),
       Ident(<< "S", "I", "G", "N", "A", "L" >>), Fixed("Colon"),
       Ident(<< "C", "R", "O", "S", "S" >>), Fixed("LParen"), Ident(<< "C" >>),
       Fixed("Comma"), Ident(<< "M", "A", "5" >>), Fixed("RParen") >>

\* The README formula: a newline, `MA5: MA(C, 5), COLORRED;`, a newline,
\* `SIGNAL: CROSS(MA5, C), COLORGREEN;`, a newline.
SemicolonTerminated ==
    << Fixed("Newline"),
       Ident(<< "M", "A", "5" >>), Fixed("Colon"), Ident(<< "M", "A" >>), Fixed("LParen"),
       Ident(<< "C" >>), Fixed("Comma"), Number(<< "5" >>), Fixed("RParen"), Fixed("Comma"),
       Ident(<< "C", "O", "L", "O", "R", "R", "E", "D" >>), Fixed("Semicolon"),
       Fixed("Newline"),
       Ident(<< "S", "I", "G", "N", "A", "L" >>), Fixed("Colon"),
       Ident(<< "C", "R", "O", "S", "S" >>), Fixed("LParen"), Ident(<< "M", "A", "5" >>),
       Fixed("Comma"), Ident(<< "C" >>), Fixed("RParen"), Fixed("Comma"),
       Ident(<< "C", "O", "L", "O", "R", "G", "R", "E", "E", "N" >>), Fixed("Semicolon"),
       Fixed("Newline") >>

DocumentedInputs == {UnclosedCall, IfWithoutComma, SemicolonSeparated, SemicolonTerminated}

\* createParser(input).parseFormula() on any token list over TokenAlphabet
\* and on the formulas of the documents.
ParseTokensInput ==
    /\ pKind = "none"
    /\ UNCHANGED << fnVars, evVars, regVars, laterVars >>
    /\ \E toks \in UNION {[1..m -> TokenAlphabet] : m \in 0..MaxToks} \cup DocumentedInputs :
        /\ pKind' = "tokens"
        /\ pTokens' = toks
        /\ pResult' = parseFormula(NewParser(toks))

ParseNext ==
    \/ ParseExpressionInput
    \/ ParseStatementsInput
    \/ ParseExampleInput
    \/ ParseTokensInput

\* The parser run on every drawn token list.
SpecParse == Init /\ [][ParseNext]_vars

\* ------------------------------------------ the token source on its own
\* new LexerIterator(lexer) over a lexer that delivers toks, then Eof.
NewLexerIterator ==
    /\ itPhase = "none"
    /\ UNCHANGED << exceptIt, itLog >>
    /\ \E m \in 0..MaxIterToks : \E toks \in [1..m -> {Ident(<< "A" >>), Ident(<< "B" >>)}] :
        /\ itState' = ParserState(toks, 1, NullTok, NullTok)
        /\ itPhase' = "made"

\* iterator.next()
IteratorNext ==
    /\ itPhase = "made"
    /\ Len(itLog) < MaxIterCalls
    /\ UNCHANGED << exceptIt, itPhase >>
    /\ \E r \in {LexerIterator_next(itState)} :
        /\ itState' = r[2]
        /\ itLog' = Append(itLog, [op |-> "next", result |-> r[1]])

\* iterator.peek()
IteratorPeek ==
    /\ itPhase = "made"
    /\ Len(itLog) < MaxIterCalls
    /\ UNCHANGED << exceptIt, itPhase >>
    /\ \E r \in {LexerIterator_peek(itState)} :
        /\ itState' = r[2]
        /\ itLog' = Append(itLog, [op |-> "peek", result |-> r[1]])

IterNext ==
    \/ NewLexerIterator
    \/ IteratorNext
    \/ IteratorPeek

\* One LexerIterator through up to MaxIterCalls calls of next and peek.
SpecIter == Init /\ [][IterNext]_vars

\* -------------------------------------------------- the lexer on its own
\* The characters the drawn inputs are made of.
LexAlphabet == { "A", "1", ".", " ", "\n", "{", "}", "?" }

\* Inputs of lexer.test.ts and the operators of the two-character handlers.
LexExamples ==
    { << "V", "A", "R", " ", ":", "=", " ", "1", "0" >>,
      << "P", "R", "I", "C", "E", ":", " ", "1", "2", ".", "3", "4" >>,
      << "A", " ", ">", " ", "B", " ", "A", "N", "D", " ", "C", " ", "<", " ", "D" >>,
      << "{", " ", "x", " ", "}", " ", "P", ":", " ", "1", "0" >>,
      << "A", ">", "=", "B", "<", "=", "C", "<", ">", "D", "=", "E" >>,
      << "(", "1", "+", "2", ")", "*", "3", ";" >>,
      << "\"", "a", "\n", "b", "\"", ",", "\"", "c" >> }

\* new Lexer(input)
NewLexer ==
    /\ lxPhase = "none"
    /\ UNCHANGED << exceptLx, lxLog >>
    /\ \E input \in UNION { [1..m -> LexAlphabet] : m \in 0..MaxChars } \cup LexExamples :
        /\ lxState' = Lexer(input)
        /\ lxPhase' = "made"

\* lexer.nextToken()
NextToken ==
    /\ lxPhase = "made"
    /\ Len(lxLog) < MaxLexCalls
    /\ UNCHANGED << exceptLx, lxPhase >>
    /\ \E r \in {Lexer_nextToken(lxState)} :
        /\ lxState' = r[2]
        /\ lxLog' = Append(lxLog, [token |-> r[1], start |-> r[3],
                                   from |-> lxState.position, to |-> r[2].position])

LexNext ==
    \/ NewLexer
    \/ NextToken

\* One Lexer through up to MaxLexCalls calls of nextToken.
SpecLex == Init /\ [][LexNext]_vars

\* ---------------------------------------------- inputs of the evaluator
\* An InputData of n bars as InputDataBuilder builds it; the five series
\* differ at every bar.
SampleData(n) ==
    InputData([k \in 1..n |-> Num(9 + k)], [k \in 1..n |-> Num(11 + k)],
              [k \in 1..n |-> Num(8 + k)], [k \in 1..n |-> Num(10 + k)],
              [k \in 1..n |-> Num(100 * k)])

Var(name) == createVariableExpr(<< name >>)

\* The statements the formulas are drawn from.
StatementsDrawn ==
    { \* A := MA(C, 2)
      createAssignmentStatement(<< "A" >>,
          createFunctionCallExpr(<< "M", "A" >>, << Var("C"), createLiteralExpr(Num(2)) >>)),
      \* B: A + 1
      createOutputStatement(<< "B" >>,
          createBinaryOpExpr(Var("A"), "Add", createLiteralExpr(Num(1))), <<>>),
      \* C := O
      createAssignmentStatement(<< "C" >>, Var("O")),
      \* C, S1, S2
      createOutputStatement(NoName, Var("C"), << << "S", "1" >>, << "S", "2" >> >>),
      \* A: H
      createOutputStatement(<< "A" >>, Var("H"), <<>>),
      \* an Output built with the empty string for its name: -C
      createOutputStatement(<<>>, createUnaryOpExpr("Neg", Var("C")), <<>>) }

Formulas == UNION {[1..m -> StatementsDrawn] : m \in 0..MaxStmts}

UnknownVar == << "U", "n", "k", "n", "o", "w", "n", "V", "a", "r" >>

\* `UNDEFINED: UnknownVar`
UndefinedFormula ==
    << createOutputStatement(<< "U", "N", "D", "E", "F", "I", "N", "E", "D" >>,
                             createVariableExpr(UnknownVar), <<>>) >>

\* The statement st between the Output `C, S1, S2` and the Output `A: H`.
Between(st) ==
    << createOutputStatement(NoName, Var("C"), << << "S", "1" >>, << "S", "2" >> >>), st,
       createOutputStatement(<< "A" >>, Var("H"), <<>>) >>

\* Formulas whose middle statement fails: `X: FOO(C)`, `X: REF(C, -1)`,
\* `X := MA(C, REF(C, 1))` and, when C is longer than numBars, `X: C + 1`;
\* and `UNDEFINED: UnknownVar` alone.
FailingFormulas ==
    { UndefinedFormula,
      Between(createOutputStatement(<< "X" >>,
          createBinaryOpExpr(Var("C"), "Add", createLiteralExpr(Num(1))), <<>>)),
      Between(createOutputStatement(<< "X" >>,
          createFunctionCallExpr(<< "F", "O", "O" >>, << Var("C") >>), <<>>)),
      Between(createOutputStatement(<< "X" >>,
          createFunctionCallExpr(<< "R", "E", "F" >>,
              << Var("C"), createUnaryOpExpr("Neg", createLiteralExpr(Num(1))) >>), <<>>)),
      Between(createAssignmentStatement(<< "X" >>,
          createFunctionCallExpr(<< "M", "A" >>,
              << Var("C"), createFunctionCallExpr(<< "R", "E", "F" >>,
                               << Var("C"), createLiteralExpr(Num(1)) >>) >>))) }

\* InputDataBuilder.build after n addBar calls: the InputData refers to the
\* builder's own five arrays, numBars is their length at this moment.
Build ==
    /\ evPhase = "unbuilt"
    /\ UNCHANGED << fnVars, pVars, regVars, laterVars, environment, outputLines, formula, stmtIndex, evResult,
                    evCalls, heapVars >>
    /\ \E n \in {0, 1, MaxBars} :
        /\ inputData' = SampleData(n)
        /\ evPhase' = "built"

\* InputDataBuilder.addBar on the builder whose build() gave inputData: the
\* push lands in the arrays inputData refers to, numBars stays.
AddBar ==
    /\ evPhase = "built"
    /\ Len(inputData.opens) < inputData.numBars + MaxLateBars
    /\ UNCHANGED << fnVars, pVars, regVars, laterVars, evPhase, environment, outputLines, formula, stmtIndex,
                    evResult, evCalls, heapVars >>
    /\ inputData' = [SampleData(Len(inputData.opens) + 1) EXCEPT !.numBars = inputData.numBars]

\* An InputData written as an object literal, which the interface allows:
\* two bars, but closes has one element only.
UnequalData ==
    [SampleData(2) EXCEPT !.closes = << Num(11) >>]

\* const inputData: InputData = { opens: [...], ..., numBars: 2 }
InputDataLiteral ==
    /\ evPhase = "unbuilt"
    /\ UNCHANGED << fnVars, pVars, regVars, laterVars, environment, outputLines, formula, stmtIndex, evResult,
                    evCalls, heapVars >>
    /\ inputData' = UnequalData
    /\ evPhase' = "handmade"

\* createEvaluator(inputData): the constructor binds the builtin variables.
NewEvaluator ==
    /\ evPhase \in {"built", "handmade"}
    /\ UNCHANGED << fnVars, pVars, regVars, laterVars, inputData, formula, stmtIndex, evResult, evCalls,
                    heapVars >>
    /\ environment' = initializeBuiltinVariables(inputData)
    /\ outputLines' = <<>>
    /\ evPhase' = "ready"

\* `this.outputLines.length = 0`: the array object is kept and emptied.
ResetOutputLines_InPlace(id) == id

\* `this.outputLines = []`: a new array object.
ResetOutputLines(id) == id + 1

\* Evaluator.evaluateFormula, its entry: outputLines is reset, nothing else.
EvaluateFormula ==
    /\ evPhase = "ready"
    /\ evCalls < MaxCalls
    /\ UNCHANGED << fnVars, pVars, regVars, laterVars, inputData, environment, returnedIds >>
    /\ linesId' = ResetOutputLines(linesId)
    /\ resultChanged' = (resultChanged \/ (linesId' \in returnedIds /\ outputLines # <<>>))
    /\ staleLines' = Len(outputLines)
    /\ \E f \in Formulas \cup FailingFormulas :
        /\ formula' = f
        /\ outputLines' = <<>>
        /\ stmtIndex' = 0
        /\ evResult' = Pending
        /\ evCalls' = evCalls + 1
        /\ evPhase' = "running"

\* A loop that catches the error of an Assignment and goes on to the next
\* statement.
ExecuteAssignment_SkipsFailed ==
    /\ evPhase = "running"
    /\ stmtIndex < Len(formula)
    /\ formula[stmtIndex + 1].type = "Assignment"
    /\ UNCHANGED << fnVars, pVars, regVars, laterVars, inputData, outputLines, formula, evCalls, heapVars >>
    /\ stmtIndex' = stmtIndex + 1
    /\ \E r \in {executeAssignment(formula[stmtIndex + 1], environment, inputData)} :
        IF r.ok
        THEN environment' = r.val /\ UNCHANGED << evPhase, evResult >>
        ELSE UNCHANGED << evPhase, evResult, environment >>

\* One turn of the loop of evaluateFormula on an Assignment statement.
ExecuteAssignment ==
    /\ evPhase = "running"
    /\ stmtIndex < Len(formula)
    /\ formula[stmtIndex + 1].type = "Assignment"
    /\ UNCHANGED << fnVars, pVars, regVars, laterVars, inputData, outputLines, formula, evCalls, heapVars >>
    /\ stmtIndex' = stmtIndex + 1
    /\ \E r \in {executeAssignment(formula[stmtIndex + 1], environment, inputData)} :
        IF r.ok
        THEN environment' = r.val /\ UNCHANGED << evPhase, evResult >>
        ELSE evResult' = Thrown(r.err) /\ evPhase' = "ready" /\ UNCHANGED environment

\* An Output statement that also binds its name to the series it puts out.
ExecuteOutput_BindsName ==
    /\ evPhase = "running"
    /\ stmtIndex < Len(formula)
    /\ formula[stmtIndex + 1].type = "Output"
    /\ UNCHANGED << fnVars, pVars, regVars, laterVars, inputData, formula, evCalls, linesId, returnedIds,
                    staleLines >>
    /\ stmtIndex' = stmtIndex + 1
    /\ \E r \in {executeOutput(formula[stmtIndex + 1], outputLines, environment, inputData)} :
        IF r.ok
        THEN /\ outputLines' = Append(outputLines, r.val)
             /\ resultChanged' = (resultChanged \/ linesId \in returnedIds)
             /\ environment' = IF IsFalsyName(formula[stmtIndex + 1].name) THEN environment
                               ELSE EnvironmentSet(environment, formula[stmtIndex + 1].name,
                                                   r.val.data)
             /\ UNCHANGED << evPhase, evResult >>
        ELSE /\ evResult' = Thrown(r.err) /\ evPhase' = "ready"
             /\ UNCHANGED << outputLines, environment, resultChanged >>

\* One turn of the loop of evaluateFormula on an Output statement.
ExecuteOutput ==
    /\ evPhase = "running"
    /\ stmtIndex < Len(formula)
    /\ formula[stmtIndex + 1].type = "Output"
    /\ UNCHANGED << fnVars, pVars, regVars, laterVars, inputData, environment, formula, evCalls, linesId,
                    returnedIds, staleLines >>
    /\ stmtIndex' = stmtIndex + 1
    /\ \E r \in {executeOutput(formula[stmtIndex + 1], outputLines, environment, inputData)} :
        IF r.ok
        THEN /\ outputLines' = Append(outputLines, r.val)
             /\ resultChanged' = (resultChanged \/ linesId \in returnedIds)
             /\ UNCHANGED << evPhase, evResult >>
        ELSE /\ evResult' = Thrown(r.err) /\ evPhase' = "ready"
             /\ UNCHANGED << outputLines, resultChanged >>

\* Evaluator.evaluateFormula, its return after the last statement.
ReturnResult ==
    /\ evPhase = "running"
    /\ stmtIndex = Len(formula)
    /\ UNCHANGED << fnVars, pVars, regVars, laterVars, inputData, environment, outputLines, formula, stmtIndex,
                    evCalls, linesId, resultChanged, staleLines >>
    /\ returnedIds' = returnedIds \cup {linesId}
    /\ evResult' = Returned(outputLines)
    /\ evPhase' = "ready"

EvalNext ==
    \/ Build
    \/ InputDataLiteral
    \/ AddBar
    \/ NewEvaluator
    \/ EvaluateFormula
    \/ ExecuteAssignment
    \/ ExecuteOutput
    \/ ReturnResult

\* One evaluator, built once and used for up to MaxCalls calls.
SpecEval == Init /\ [][EvalNext]_vars

\* ------------------------------------------- two evaluators, one InputData
\* A Map shared by every Evaluator.
envOf_Shared(e) == 1

\* this.environment = new Map(): the Environment of Evaluator e is its own.
envOf(e) == e

\* The InputData whose series are the first five arrays.
SharedInputData(heap) == InputData(heap[1], heap[2], heap[3], heap[4], heap[5])

\* initializeBuiltinVariables: the names are bound to the arrays of the
\* InputData themselves.
BuiltinReferences ==
    [name \in BuiltinNames |->
        CASE name = << "O" >> -> 1
          [] name = << "H" >> -> 2
          [] name = << "L" >> -> 3
          [] name = << "C" >> -> 4
          [] name = << "V" >> -> 5]

\* An Environment with the arrays its names are bound to.
Resolved(env, heap) == [name \in DOMAIN env |-> heap[env[name]]]

\* resolveVariable returns the array the name is bound to and a Grouped
\* expression the array of its inner one; every other expression makes a
\* new array. 0 for a new array.
RECURSIVE ArrayReturned(_, _)
ArrayReturned(expr, env) ==
    IF expr.type = "Variable" THEN env[expr.name]
    ELSE IF expr.type = "Grouped" THEN ArrayReturned(expr.kids[1], env)
    ELSE 0

\* The statements the two formulas are drawn from: A := MA(C, 2), B: A + 1,
\* C := O, and the unnamed output of C.
PairStatements ==
    { st \in StatementsDrawn :
        st.expr.type # "UnaryOp" /\ ~(st.type = "Output" /\ st.name = << "A" >>) }

PairFormulas == UNION {[1..m -> PairStatements] : m \in 0..MaxPairStmts}

\* The Evaluators in a phase.
InPhase(phase) == { e \in 1..2 : pairEv[e].phase = phase }

\* new Evaluator(inputData) twice over one InputData of MaxBars bars.
NewEvaluators ==
    /\ InPhase("none") = {1, 2}
    /\ UNCHANGED << exceptPair, interleaved >>
    /\ pairHeap' = << SampleData(MaxBars).opens, SampleData(MaxBars).highs,
                      SampleData(MaxBars).lows, SampleData(MaxBars).closes,
                      SampleData(MaxBars).volumes >>
    /\ pairEnvs' = [id \in {envOf(1), envOf(2)} |-> BuiltinReferences]
    /\ pairEv' = [e \in 1..2 |-> EvaluatorObject("ready", envOf(e), <<>>, 0, <<>>, Pending)]

\* evaluateFormula(formula) is entered on one of the Evaluators.
PairEvaluateFormula ==
    /\ InPhase("ready") # {}
    /\ UNCHANGED << exceptPair, pairHeap, pairEnvs, interleaved >>
    /\ \E e \in InPhase("ready") : \E f \in PairFormulas :
        pairEv' = [pairEv EXCEPT ![e] =
                      EvaluatorObject("running", pairEv[e].env, f, 0, <<>>, Pending)]

\* The next statement of one of the running Evaluators is executed.
PairExecuteStatement ==
    /\ \E e \in InPhase("running") : pairEv[e].stmtIndex < Len(pairEv[e].formula)
    /\ UNCHANGED exceptPair
    /\ \E e \in { x \in InPhase("running") : pairEv[x].stmtIndex < Len(pairEv[x].formula) } :
        \E r \in { IF pairEv[e].formula[pairEv[e].stmtIndex + 1].type = "Assignment"
                    THEN executeAssignment(pairEv[e].formula[pairEv[e].stmtIndex + 1],
                                           Resolved(pairEnvs[pairEv[e].env], pairHeap),
                                           SharedInputData(pairHeap))
                    ELSE executeOutput(pairEv[e].formula[pairEv[e].stmtIndex + 1],
                                       pairEv[e].outputLines,
                                       Resolved(pairEnvs[pairEv[e].env], pairHeap),
                                       SharedInputData(pairHeap)) },
           old \in { ArrayReturned(pairEv[e].formula[pairEv[e].stmtIndex + 1].expr,
                                   pairEnvs[pairEv[e].env]) } :
            /\ interleaved' = (interleaved \/ \E o \in InPhase("running") \ {e} :
                                                  /\ pairEv[o].stmtIndex >= 1
                                                  /\ pairEv[o].stmtIndex < Len(pairEv[o].formula))
            /\ IF ~r.ok
               THEN /\ pairEv' = [pairEv EXCEPT ![e].phase = "done",
                                                ![e].stmtIndex = @ + 1,
                                                ![e].result = Thrown(r.err)]
                    /\ UNCHANGED << pairHeap, pairEnvs >>
               ELSE IF pairEv[e].formula[pairEv[e].stmtIndex + 1].type = "Assignment"
               THEN /\ pairHeap' =
                        IF old # 0 THEN pairHeap
                        ELSE Append(pairHeap,
                                    r.val[pairEv[e].formula[pairEv[e].stmtIndex + 1].name])
                    /\ pairEnvs' = [pairEnvs EXCEPT ![pairEv[e].env] =
                            EnvironmentSet(@, pairEv[e].formula[pairEv[e].stmtIndex + 1].name,
                                           IF old # 0 THEN old ELSE Len(pairHeap) + 1)]
                    /\ pairEv' = [pairEv EXCEPT ![e].stmtIndex = @ + 1]
               ELSE /\ pairHeap' = IF old # 0 THEN pairHeap ELSE Append(pairHeap, r.val.data)
                    /\ pairEv' = [pairEv EXCEPT
                            ![e].stmtIndex = @ + 1,
                            ![e].outputLines = Append(@,
                                [r.val EXCEPT !.data = IF old # 0 THEN old
                                                       ELSE Len(pairHeap) + 1])]
                    /\ UNCHANGED pairEnvs

\* The loop of one of the running Evaluators is over: createFormulaResult
\* of its output lines, each with the array it refers to.
PairReturnResult ==
    /\ \E e \in InPhase("running") : pairEv[e].stmtIndex = Len(pairEv[e].formula)
    /\ UNCHANGED << exceptPair, pairHeap, pairEnvs, interleaved >>
    /\ \E e \in { x \in InPhase("running") : pairEv[x].stmtIndex = Len(pairEv[x].formula) } :
        pairEv' = [pairEv EXCEPT
                      ![e].phase = "done",
                      ![e].result = Returned([k \in 1..Len(pairEv[e].outputLines) |->
                                        [pairEv[e].outputLines[k] EXCEPT !.data = pairHeap[@]]])]

PairNext ==
    \/ NewEvaluators
    \/ PairEvaluateFormula
    \/ PairExecuteStatement
    \/ PairReturnResult

\* Two Evaluators, each through one evaluateFormula call, their statements
\* in every order.
SpecPair == Init /\ [][PairNext]_vars

\* ----------------------------------------------- the batch of requests
\* The symbol lists drawn: up to MaxSymbols supported symbols, and the same
\* with an unsupported symbol put first, second or last.
SymbolsDrawn ==
    UNION { { [k \in 1..n |-> TRUE],
              [k \in 1..n |-> k # 1],
              [k \in 1..n |-> k # 2],
              [k \in 1..n |-> k # n] } : n \in 0..MaxSymbols }

\* The limiter's activeCount: the functions that hold a slot.
activeCount == awaiting + fetching

\* service.getBatchStockData(symbols, ...): autoSelectAdapter throws for no
\* symbol or an unsupported first one; else every symbol's task function is
\* handed to the limiter.
GetBatchStockData ==
    /\ batchPhase = "idle"
    /\ UNCHANGED << exceptBatch, awaiting, fetching, settled, succeeded >>
    /\ \E symbols \in SymbolsDrawn :
        /\ batchSymbols' = symbols
        /\ IF symbols = <<>> \/ ~symbols[1]
           THEN batchPhase' = "rejected" /\ UNCHANGED limQueue
           ELSE /\ batchPhase' = "called"
                /\ limQueue' = [k \in 1..Len(symbols) |->
                                    IF symbols[k] THEN "task" ELSE "taskUnsupported"]

\* The limiter has a free slot and runs the function at the head of its
\* queue up to its first await: a task function calls adapter.fetchData,
\* which throws for an unsupported symbol (the task catches and returns
\* null) and else hands its own function to the same limiter; a fetchData
\* function sends its request.
StartQueued ==
    /\ limQueue # <<>>
    /\ activeCount < Concurrency
    /\ UNCHANGED << exceptBatch, batchPhase, batchSymbols, succeeded >>
    /\ \E head \in {Head(limQueue)} :
        CASE head = "task" ->
                /\ awaiting' = awaiting + 1
                /\ limQueue' = Append(Tail(limQueue), "fetchData")
                /\ UNCHANGED << fetching, settled >>
          [] head = "taskUnsupported" ->
                /\ settled' = settled + 1
                /\ limQueue' = Tail(limQueue)
                /\ UNCHANGED << awaiting, fetching >>
          [] head = "fetchData" ->
                /\ fetching' = fetching + 1
                /\ limQueue' = Tail(limQueue)
                /\ UNCHANGED << awaiting, settled >>

\* A request completes or fails: its fetchData function settles and gives
\* its slot back, the task function awaiting it returns the data or null
\* and gives its slot back.
RequestSettles ==
    /\ fetching > 0
    /\ UNCHANGED << exceptBatch, batchPhase, batchSymbols, limQueue >>
    /\ fetching' = fetching - 1
    /\ awaiting' = awaiting - 1
    /\ settled' = settled + 1
    /\ \E ok \in BOOLEAN : succeeded' = IF ok THEN succeeded + 1 ELSE succeeded

\* Promise.all(tasks) resolves when every task is settled.
BatchResolves ==
    /\ batchPhase = "called"
    /\ settled = Len(batchSymbols)
    /\ UNCHANGED << exceptBatch, batchSymbols, limQueue, awaiting, fetching, settled,
                    succeeded >>
    /\ batchPhase' = "resolved"

BatchNext ==
    \/ GetBatchStockData
    \/ StartQueued
    \/ RequestSettles
    \/ BatchResolves

\* One getBatchStockData call.
SpecBatch == Init /\ [][BatchNext]_vars

\* The same when the event loop keeps running what can run and every
\* request sent completes or fails.
FairSpecBatch ==
    SpecBatch /\ WF_vars(StartQueued) /\ WF_vars(RequestSettles) /\ WF_vars(BatchResolves)

\* ------------------------------------------- the custom data evaluator
CustomRsi == << "c", "u", "s", "t", "o", "m", "R", "S", "I" >>

\* The stocks drawn, of two bars each: DEMO with the numeric field
\* customRSI, NULLS whose customRSI holds a null, PLAIN without custom
\* fields, SHORT whose highs are one bar short.
StocksDrawn ==
    { CustomStockData("DEMO", << "d1", "d2" >>, << Num(10), Num(11) >>, << Num(12), Num(13) >>,
                      << Num(9), Num(10) >>, << Num(11), Num(12) >>, << Num(100), Num(200) >>,
                      << [key |-> CustomRsi, value |-> JsArray(<< Num(45), Num(55) >>)] >>),
      CustomStockData("NULLS", << "d1", "d2" >>, << Num(20), Num(21) >>, << Num(22), Num(23) >>,
                      << Num(19), Num(20) >>, << Num(21), Num(22) >>, << Num(100), Num(200) >>,
                      << [key |-> CustomRsi, value |-> JsArray(<< Null, Num(55) >>)] >>),
      CustomStockData("PLAIN", << "d1", "d2" >>, << Num(30), Num(31) >>, << Num(32), Num(33) >>,
                      << Num(29), Num(30) >>, << Num(31), Num(32) >>, << Num(100), Num(200) >>,
                      << [key |-> << "n", "o", "t", "e" >>, value |-> JsOther] >>),
      CustomStockData("SHORT", << "d1", "d2" >>, << Num(40), Num(41) >>, << Num(42) >>,
                      << Num(39), Num(40) >>, << Num(41), Num(42) >>, << Num(100), Num(200) >>,
                      <<>>) }

\* The indicators drawn: one as long as the stocks, one a bar short.
IndicatorsDrawn ==
    { TechnicalIndicator(<< "r", "s", "i" >>, << Num(60), Num(40) >>),
      TechnicalIndicator(<< "m", "a" >>, << Num(60) >>) }

\* RSI_SIGNAL: IF(CUSTOMRSI > 50, 1, 0)
RsiSignal ==
    << createOutputStatement(<< "R", "S", "I", "_", "S", "I", "G", "N", "A", "L" >>,
           createFunctionCallExpr(<< "I", "F" >>,
               << createBinaryOpExpr(createVariableExpr(toUpperCase(CustomRsi)), "Gt",
                                     createLiteralExpr(Num(50))),
                  createLiteralExpr(Num(1)), createLiteralExpr(Num(0)) >>), <<>>) >>

\* X: RSI + C
IndicatorPlusClose ==
    << createOutputStatement(<< "X" >>,
           createBinaryOpExpr(createVariableExpr(<< "R", "S", "I" >>), "Add", Var("C")), <<>>) >>

\* D := H - L, then D and C as two lines
BuiltinsOnly ==
    << createAssignmentStatement(<< "D" >>, createBinaryOpExpr(Var("H"), "Sub", Var("L"))),
       createOutputStatement(<< "D" >>, Var("D"), <<>>),
       createOutputStatement(NoName, Var("C"), <<>>) >>

\* The requests drawn.
RequestsDrawn ==
    { CombinedCalculationRequest(stocks, indicators, f, outputNames) :
        stocks \in UNION { [1..m -> StocksDrawn] : m \in 0..MaxRequestStocks },
        indicators \in {<<>>} \cup { << i >> : i \in IndicatorsDrawn },
        f \in { RsiSignal, IndicatorPlusClose, BuiltinsOnly },
        outputNames \in { <<>>, << << "N" >> >> } }

\* evaluator.addStockData(stock)
AddStockData ==
    /\ cdCalls < MaxCustomCalls
    /\ UNCHANGED << exceptCd, cdIndicators, cdRequest, cdResult >>
    /\ cdCalls' = cdCalls + 1
    /\ cdLast' = "addStockData"
    /\ \E stock \in StocksDrawn : \E r \in {addStockData(cdStocks, stock)} :
        cdStocks' = IF r.ok THEN r.val ELSE cdStocks

\* evaluator.addIndicator(indicator)
AddIndicator ==
    /\ cdCalls < MaxCustomCalls
    /\ UNCHANGED << exceptCd, cdStocks, cdRequest, cdResult >>
    /\ cdCalls' = cdCalls + 1
    /\ cdLast' = "addIndicator"
    /\ \E indicator \in IndicatorsDrawn : \E r \in {addIndicator(cdIndicators, indicator)} :
        cdIndicators' = IF r.ok THEN r.val ELSE cdIndicators

\* evaluator.evaluateCombinedFormula(request)
EvaluateCombinedFormula ==
    /\ cdCalls < MaxCustomCalls
    /\ UNCHANGED exceptCd
    /\ cdCalls' = cdCalls + 1
    /\ cdLast' = "evaluateCombinedFormula"
    /\ \E request \in RequestsDrawn :
        \E r \in {evaluateCombinedFormula(cdStocks, cdIndicators, request)} :
            /\ cdRequest' = request
            /\ cdStocks' = r.stockDataMap
            /\ cdIndicators' = r.indicatorMap
            /\ cdResult' = r.result

CustomNext ==
    \/ AddStockData
    \/ AddIndicator
    \/ EvaluateCombinedFormula

\* One CustomDataEvaluator through up to MaxCustomCalls calls.
SpecCustom == Init /\ [][CustomNext]_vars

\* ------------------------------------------------ inputs of the registry
\* Names in several spellings, among them a builtin's and the empty name.
NamesDrawn ==
    { <<>>, << "m", "a" >>, << "M", "a" >>, << "a", "b" >> }

\* Two functions and a value that is no function.
FuncsDrawn == {"f1", "f2", "notAFunction"}

\* registry.registerFunction(name, func)
RegisterFunction ==
    /\ Len(regLog) < MaxRegistryCalls
    /\ UNCHANGED << fnVars, pVars, evVars, laterVars >>
    /\ \E name \in NamesDrawn, func \in FuncsDrawn :
        \E r \in {registerFunction(functions, name, func)} :
            /\ functions' = IF r.ok THEN r.val ELSE functions
            /\ regReturn' = IF r.ok THEN "undefined" ELSE "thrown"
            /\ regLog' = Append(regLog, [op |-> "register", name |-> name, func |-> func])

\* registry.unregisterFunction(name)
UnregisterFunction ==
    /\ Len(regLog) < MaxRegistryCalls
    /\ UNCHANGED << fnVars, pVars, evVars, laterVars >>
    /\ \E name \in NamesDrawn :
        \E r \in {unregisterFunction(functions, name)} :
            /\ functions' = r[2]
            /\ regReturn' = IF r[1] THEN "true" ELSE "false"
            /\ regLog' = Append(regLog, [op |-> "unregister", name |-> name, func |-> "none"])

RegistryNext ==
    \/ RegisterFunction
    \/ UnregisterFunction

\* One registry through up to MaxRegistryCalls calls.
SpecRegistry == Init /\ [][RegistryNext]_vars

\* ------------------------------------------- properties of the built-ins
\* What the properties say of a window, stated apart from the loops above.
\* The drawn data are whole numbers, so a window's sum is a sum of numerators.
IsWhole(X) == \A k \in 1..Len(X) : X[k] # Null => X[k][2] = 1

Window(n, i) == (i - n + 1)..i

NonNullIn(X, n, i) == {j \in Window(n, i) : At(X, j) # Null}

RECURSIVE WholeSum(_, _)
WholeSum(X, S) ==
    IF S = {} THEN 0
    ELSE LET j == CHOOSE k \in S : TRUE IN At(X, j)[1] + WholeSum(X, S \ {j})

\* The number r has the value p / q.
HasValue(r, p, q) == r # Null /\ r[2] > 0 /\ r[1] * q = p * r[2]

fnData == fnArgs[1]
fnScalar == fnArgs[2][1][1]
WindowedCall(name) == fnName = name /\ Len(fnArgs[2]) > 0
fnIndices == 0..(Len(fnData) - 1)

\* C5: a BinaryOp is null at an index where either operand is null (AND and
\* OR included), `/` by 0 is null, arithmetic is exact, and comparisons, AND
\* and OR give exactly 1 or 0 with any non-zero operand counted as true.
C5_BinaryOpElementwise ==
    (fnName \in BinaryOperator /\ Len(fnArgs[1]) = Len(fnArgs[2])) =>
        /\ fnResult.ok
        /\ Len(fnResult.val) = Len(fnArgs[1])
        /\ \A k \in 1..Len(fnArgs[1]) :
            LET x == fnArgs[1][k]
                y == fnArgs[2][k]
                r == fnResult.val[k]
                truth(b) == IF b THEN r = Num(1) ELSE r = Num(0)
            IN  IF x = Null \/ y = Null THEN r = Null
                ELSE CASE fnName = "Add" -> HasValue(r, x[1] * y[2] + y[1] * x[2], x[2] * y[2])
                       [] fnName = "Sub" -> HasValue(r, x[1] * y[2] - y[1] * x[2], x[2] * y[2])
                       [] fnName = "Mul" -> HasValue(r, x[1] * y[1], x[2] * y[2])
                       [] fnName = "Div" ->
                            IF y[1] = 0 THEN r = Null
                            ELSE r # Null /\ r[2] > 0 /\ r[1] * y[1] * x[2] = x[1] * y[2] * r[2]
                       [] fnName = "Gt" -> truth(x[1] * y[2] > y[1] * x[2])
                       [] fnName = "Lt" -> truth(x[1] * y[2] < y[1] * x[2])
                       [] fnName = "GtEq" -> truth(x[1] * y[2] >= y[1] * x[2])
                       [] fnName = "LtEq" -> truth(x[1] * y[2] =< y[1] * x[2])
                       [] fnName = "Eq" -> truth(x[1] * y[2] = y[1] * x[2])
                       [] fnName = "NotEq" -> truth(x[1] * y[2] # y[1] * x[2])
                       [] fnName = "And" -> truth(x[1] # 0 /\ y[1] # 0)
                       [] fnName = "Or" -> truth(x[1] # 0 \/ y[1] # 0)

\* A non-zero number was divided by 0 and the element is null.
C5_Witness ==
    /\ fnName = "Div"
    /\ fnResult.ok
    /\ \E k \in 1..Len(fnArgs[1]) :
        fnArgs[1][k] = Num(2) /\ fnArgs[2][k] = Num(0) /\ fnResult.val[k] = Null

\* C6: MA(X, n), n >= 1, is null before index n-1, and from there the sum of
\* the window's non-null elements divided by their number, null exactly when
\* the window has none; MA([11,12,13,14,15], 3) = [null, null, 12, 13, 14].
C6_MAWindowAverage ==
    (WindowedCall("MA") /\ fnScalar >= 1) =>
        /\ fnResult.ok
        /\ Len(fnResult.val) = Len(fnData)
        /\ \A i \in fnIndices :
            LET r == At(fnResult.val, i)
                S == NonNullIn(fnData, fnScalar, i)
            IN  IF i < fnScalar - 1 \/ S = {} THEN r = Null
                ELSE HasValue(r, WholeSum(fnData, S), Cardinality(S))
        /\ (fnData = ExampleCloses /\ fnScalar = 3) =>
              fnResult.val = << Null, Null, Num(12), Num(13), Num(14) >>

\* A window of two with one gap: the average is the one value present.
C6_Witness ==
    /\ WindowedCall("MA")
    /\ fnScalar = 2
    /\ fnResult.ok
    /\ \E i \in fnIndices :
        /\ i >= 1
        /\ At(fnData, i - 1) = Null
        /\ At(fnData, i) = Num(2)
        /\ At(fnResult.val, i) = Num(2)

\* C7: REF(X, k), k >= 0, is X[i-k] at i >= k and null before: REF(X, 0) is X
\* and REF(X, k) is all null for k >= numBars; a negative offset is an error.
C7_REFShift ==
    WindowedCall("REF") =>
        IF fnScalar >= 0
        THEN /\ fnResult.ok
             /\ Len(fnResult.val) = Len(fnData)
             /\ \A i \in fnIndices :
                  At(fnResult.val, i) =
                      IF i >= fnScalar THEN At(fnData, i - fnScalar) ELSE Null
             /\ fnScalar = 0 => fnResult.val = fnData
             /\ fnScalar >= Len(fnData) => \A i \in fnIndices : At(fnResult.val, i) = Null
        ELSE /\ ~fnResult.ok
             /\ fnResult.err = "REF offset must be non-negative"

\* REF(X, 0) of a series that holds a number and a null.
C7_Witness ==
    /\ WindowedCall("REF")
    /\ fnScalar = 0
    /\ fnResult.ok
    /\ fnResult.val = fnData
    /\ \E i, j \in fnIndices : At(fnData, i) = Null /\ At(fnData, j) = Num(1)

\* C8: IF(cond, a, b) is null where any of the three is null, else a where
\* cond is non-zero and b where it is 0; IF(C > 12, 1, 0) = [0, 0, 1, 1, 1].
C8_IFSelect ==
    fnName = "IF" =>
        /\ fnResult.ok
        /\ Len(fnResult.val) = Len(fnArgs[1])
        /\ \A k \in 1..Len(fnArgs[1]) :
            LET c == fnArgs[1][k]
                a == fnArgs[2][k]
                b == fnArgs[3][k]
                r == fnResult.val[k]
            IN  /\ (c = Null \/ a = Null \/ b = Null) => r = Null
                /\ (c # Null /\ a # Null /\ b # Null) => r = (IF c[1] # 0 THEN a ELSE b)
        /\ fnArgs = ExampleIfArgs =>
              /\ fnArgs[1] = << Num(0), Num(0), Num(1), Num(1), Num(1) >>
              /\ fnResult.val = << Num(0), Num(0), Num(1), Num(1), Num(1) >>

\* Only the branch that is not selected is null, and the element is null.
C8_Witness ==
    /\ fnName = "IF"
    /\ \E k \in 1..Len(fnArgs[1]) :
        /\ fnArgs[1][k] = Num(2)
        /\ fnArgs[2][k] = Num(1)
        /\ fnArgs[3][k] = Null
        /\ fnResult.val[k] = Null

\* C9: CROSS(a, b) is 0 at index 0, every element is 0 or 1 and never null,
\* and it is 1 exactly where a was strictly below b and is strictly above it,
\* all four values being non-null.
C9_CROSSUpward ==
    fnName = "CROSS" =>
        /\ fnResult.ok
        /\ Len(fnResult.val) = Len(fnArgs[1])
        /\ Len(fnArgs[1]) > 0 => At(fnResult.val, 0) = Num(0)
        /\ \A i \in 0..(Len(fnArgs[1]) - 1) :
            LET a == fnArgs[1]
                b == fnArgs[2]
                r == At(fnResult.val, i)
            IN  /\ r \in {Num(0), Num(1)}
                /\ r = Num(1) <=>
                      /\ i > 0
                      /\ At(a, i - 1) # Null /\ At(b, i - 1) # Null
                      /\ At(a, i) # Null /\ At(b, i) # Null
                      /\ At(a, i - 1)[1] < At(b, i - 1)[1]
                      /\ At(a, i)[1] > At(b, i)[1]

\* One series crosses the other upward at one index and is null at another,
\* where the element is 0.
C9_Witness ==
    /\ fnName = "CROSS"
    /\ \E i, j \in 1..(Len(fnArgs[1]) - 1) :
        /\ At(fnResult.val, i) = Num(1)
        /\ At(fnArgs[1], j) = Null
        /\ At(fnResult.val, j) = Num(0)

\* C10: SUM, HHV, LLV and COUNT, n >= 1, are null before index n-1; from there
\* SUM, HHV and LLV are the sum, maximum and minimum of the window's non-null
\* elements, null exactly when it has none, and COUNT is the number of window
\* elements that are neither null nor zero, from 0 to n and never null.
C10_WindowedAggregates ==
    ((WindowedCall("SUM") \/ WindowedCall("HHV") \/ WindowedCall("LLV")
        \/ WindowedCall("COUNT")) /\ fnScalar >= 1) =>
        /\ fnResult.ok
        /\ Len(fnResult.val) = Len(fnData)
        /\ \A i \in fnIndices :
            LET r == At(fnResult.val, i)
                S == NonNullIn(fnData, fnScalar, i)
                T == {j \in S : At(fnData, j)[1] # 0}
            IN  IF i < fnScalar - 1 THEN r = Null
                ELSE CASE fnName = "SUM" ->
                            IF S = {} THEN r = Null
                            ELSE HasValue(r, WholeSum(fnData, S), 1)
                       [] fnName = "HHV" ->
                            IF S = {} THEN r = Null
                            ELSE /\ \E j \in S : r = At(fnData, j)
                                 /\ \A j \in S : At(fnData, j)[1] =< r[1]
                       [] fnName = "LLV" ->
                            IF S = {} THEN r = Null
                            ELSE /\ \E j \in S : r = At(fnData, j)
                                 /\ \A j \in S : At(fnData, j)[1] >= r[1]
                       [] fnName = "COUNT" ->
                            /\ r = Num(Cardinality(T))
                            /\ r[1] \in 0..fnScalar

\* COUNT over a full window that holds a zero, a null and a non-zero number.
C10_Witness ==
    /\ WindowedCall("COUNT")
    /\ fnScalar = 3
    /\ fnResult.ok
    /\ \E i \in fnIndices :
        /\ i >= 2
        /\ {At(fnData, j) : j \in Window(3, i)} = {Null, Num(0), Num(-1)}
        /\ At(fnResult.val, i) = Num(1)


\* ---------------------------------------------- properties of the parser
\* What a token shows of itself in a tree: its type, an identifier's text, a
\* number's value.
Sig(tok) ==
    CASE tok.tokenType = "Number" -> << "Number", parseFloat(tok.lexeme) >>
      [] tok.tokenType = "Identifier" -> << "Identifier", tok.lexeme >>
      [] OTHER -> << tok.tokenType, <<>> >>

SigSeq(toks) == [k \in 1..Len(toks) |-> Sig(toks[k])]

\* The token an operator of a tree was written as.
OperatorToken(operator) ==
    CASE operator = "Add" -> "Plus"
      [] operator = "Sub" -> "Minus"
      [] operator = "Mul" -> "Star"
      [] operator = "Div" -> "Slash"
      [] operator = "Eq" -> "EqEq"
      [] operator = "Neg" -> "Minus"
      [] OTHER -> operator

\* The tokens a tree was built from, read off the tree from left to right.
RECURSIVE Yield(_)
RECURSIVE YieldArgs(_, _)
Yield(e) ==
    CASE e.type = "Literal" -> << << "Number", e.num >> >>
      [] e.type = "Variable" -> << << "Identifier", e.name >> >>
      [] e.type = "UnaryOp" -> << << OperatorToken(e.operator), <<>> >> >> \o Yield(e.kids[1])
      [] e.type = "BinaryOp" ->
            Yield(e.kids[1]) \o << << OperatorToken(e.operator), <<>> >> >> \o Yield(e.kids[2])
      [] e.type = "Grouped" ->
            << << "LParen", <<>> >> >> \o Yield(e.kids[1]) \o << << "RParen", <<>> >> >>
      [] e.type = "FunctionCall" ->
            << IF e.name = << "I", "F" >> THEN << "If", <<>> >> ELSE << "Identifier", e.name >>,
               << "LParen", <<>> >> >>
            \o YieldArgs(e.kids, 1) \o << << "RParen", <<>> >> >>

YieldArgs(args, k) ==
    IF k > Len(args) THEN <<>>
    ELSE (IF k > 1 THEN << << "Comma", <<>> >> >> ELSE <<>>)
         \o Yield(args[k]) \o YieldArgs(args, k + 1)

RECURSIVE YieldStyles(_, _)
YieldStyles(styles, k) ==
    IF k > Len(styles) THEN <<>>
    ELSE << << "Comma", <<>> >>, << "Identifier", styles[k] >> >> \o YieldStyles(styles, k + 1)

\* The tokens of a whole statement.
StatementYield(st) ==
    (IF st.type = "Assignment"
     THEN << << "Identifier", st.name >>, << "ColonAssign", <<>> >> >>
     ELSE IF st.name # NoName
     THEN << << "Identifier", st.name >>, << "Colon", <<>> >> >>
     ELSE <<>>)
    \o Yield(st.expr) \o YieldStyles(st.styles, 1)

\* The levels of the binary operators, the loosest first.
Level(operator) ==
    CASE operator = "Or" -> 1
      [] operator = "And" -> 2
      [] operator \in {"Gt", "Lt", "GtEq", "LtEq", "Eq", "NotEq"} -> 3
      [] operator \in {"Add", "Sub"} -> 4
      [] operator \in {"Mul", "Div"} -> 5

\* A tree groups as the levels dictate: what stands unbracketed to the left of
\* a binary operator binds at least as tightly as it, what stands to its
\* right binds more tightly, and a prefix operator holds no unbracketed
\* binary operation.
RECURSIVE Grouped(_)
Grouped(e) ==
    /\ e.type = "BinaryOp" =>
          /\ e.kids[1].type = "BinaryOp" => Level(e.kids[1].operator) >= Level(e.operator)
          /\ e.kids[2].type = "BinaryOp" => Level(e.kids[2].operator) > Level(e.operator)
    /\ e.type = "UnaryOp" => e.kids[1].type # "BinaryOp"
    /\ \A k \in 1..Len(e.kids) : Grouped(e.kids[k])

X(i) == createVariableExpr(<< "X", Digits[i + 1] >>)

\* The one anonymous, unstyled output statement of the parsed input, if that
\* is what was parsed.
IsOneExpression(r) ==
    /\ r.ok
    /\ Len(r.val) = 1
    /\ r.val[1].type = "Output"
    /\ r.val[1].name = NoName
    /\ r.val[1].styles = <<>>

\* C3: every expression parses to the one tree that reads back as the written
\* tokens and groups by the levels OR < AND < comparisons < +,- < *,/ < prefix:
\* a tighter operator groups first, equal levels associate to the left, and a
\* prefix operator takes only the primary or prefix expression that follows
\* it; X1 - X2 - X3 is (X1 - X2) - X3, -X1 * X2 is (-X1) * X2, NOT X1 > X2 is
\* (NOT X1) > X2 and C + H * 2 is C + (H * 2).
C3_BindingPowers ==
    /\ pKind = "expression" =>
          /\ IsOneExpression(pResult)
          /\ Yield(pResult.val[1].expr) = SigSeq(pTokens)
    /\ pKind # "none" /\ pResult.ok =>
          \A k \in 1..Len(pResult.val) : Grouped(pResult.val[k].expr)
    /\ pTokens = << Operand(1), Fixed("Minus"), Operand(2), Fixed("Minus"), Operand(3) >> =>
          pResult.val[1].expr
              = createBinaryOpExpr(createBinaryOpExpr(X(1), "Sub", X(2)), "Sub", X(3))
    /\ pTokens = << Fixed("Minus"), Operand(1), Fixed("Star"), Operand(2) >> =>
          pResult.val[1].expr
              = createBinaryOpExpr(createUnaryOpExpr("Neg", X(1)), "Mul", X(2))
    /\ pTokens = << Fixed("Not"), Operand(1), Fixed("Gt"), Operand(2) >> =>
          pResult.val[1].expr
              = createBinaryOpExpr(createUnaryOpExpr("Not", X(1)), "Gt", X(2))
    /\ pTokens = << Ident(<< "P" >>), Fixed("Colon"), Ident(<< "C" >>), Fixed("Plus"),
                    Ident(<< "H" >>), Fixed("Star"), Number(<< "2" >>) >> =>
          /\ pResult.ok
          /\ pResult.val[1].expr
              = createBinaryOpExpr(createVariableExpr(<< "C" >>), "Add",
                    createBinaryOpExpr(createVariableExpr(<< "H" >>), "Mul",
                                       createLiteralExpr(Num(2))))

\* A prefix operator, a loose operator and a tight one met in one expression:
\* -X1 + X2 * X3 was parsed with + at the root.
C3_Witness ==
    /\ pKind = "expression"
    /\ pResult.ok
    /\ pResult.val[1].expr.type = "BinaryOp"
    /\ pResult.val[1].expr.operator = "Add"
    /\ pResult.val[1].expr.kids[1] = createUnaryOpExpr("Neg", X(1))
    /\ pResult.val[1].expr.kids[2] = createBinaryOpExpr(X(2), "Mul", X(3))

\* What the first token of a statement and the token after it make of the
\* statement: its type and its name.
Dispatch(toks, p) ==
    IF toks[p].tokenType = "Identifier" /\ p < Len(toks)
       /\ toks[p + 1].tokenType = "ColonAssign"
    THEN << "Assignment", toks[p].lexeme >>
    ELSE IF toks[p].tokenType = "Identifier" /\ p < Len(toks)
            /\ toks[p + 1].tokenType = "Colon"
    THEN << "Output", toks[p].lexeme >>
    ELSE << "Output", NoName >>

\* The statements from the k-th on are the tokens from the p-th on, newlines
\* left out: each statement reads back as the tokens it stands on, from its
\* first token on, and has the type and the name its first two tokens give.
RECURSIVE Dispatched(_, _, _, _)
Dispatched(toks, p, stmts, k) ==
    IF p =< Len(toks) /\ toks[p].tokenType = "Newline"
    THEN One({ Dispatched(toks, q, stmts, k) : q \in {p + 1} })
    ELSE IF k > Len(stmts) THEN p > Len(toks)
    ELSE One({ /\ p + Len(y) - 1 =< Len(toks)
               /\ SigSeq(SubSeq(toks, p, p + Len(y) - 1)) = y
               /\ << stmts[k].type, stmts[k].name >> = Dispatch(toks, p)
               /\ One({ Dispatched(toks, q, stmts, k + 1) : q \in {p + Len(y)} }) :
               y \in {StatementYield(stmts[k])} })

\* C4: a statement is an Assignment when an identifier is directly followed
\* by `:=`, a named Output when it is directly followed by `:`, and an
\* anonymous Output whose expression starts at the first token otherwise; the
\* statements read back as exactly the tokens written, none lost or doubled,
\* and a name followed by `:=` or `:` and then an expression statement does
\* parse, to the Assignment or the Output of that expression.
C4_StatementDispatch ==
    /\ pKind # "none" /\ pResult.ok => Dispatched(pTokens, 1, pResult.val, 1)
    /\ /\ pKind = "statements"
       /\ Len(pTokens) >= 3
       /\ pTokens[1].tokenType = "Identifier"
       /\ pTokens[2].tokenType \in {"ColonAssign", "Colon"}
       /\ pTokens[3].tokenType # "Newline"
       => \A rest \in {parseFormula(NewParser(SubSeq(pTokens, 3, Len(pTokens))))} :
            /\ rest.ok /\ Len(rest.val) = 1 /\ rest.val[1].name = NoName
               /\ (pTokens[2].tokenType = "ColonAssign" => rest.val[1].styles = <<>>)
               => /\ pResult.ok
                  /\ pResult.val
                       = << IF pTokens[2].tokenType = "ColonAssign"
                            THEN createAssignmentStatement(pTokens[1].lexeme, rest.val[1].expr)
                            ELSE createOutputStatement(pTokens[1].lexeme, rest.val[1].expr,
                                                       rest.val[1].styles) >>

\* An anonymous Output that starts with a token that is no identifier, and
\* after it an Assignment found by the lookahead:  - A  then  A := B.
C4_Witness ==
    /\ pKind = "statements"
    /\ pResult.ok
    /\ Len(pResult.val) = 2
    /\ pResult.val[1].type = "Output"
    /\ pResult.val[1].name = NoName
    /\ pResult.val[1].expr.type = "UnaryOp"
    /\ pResult.val[2].type = "Assignment"


\* ------------------------------------------- properties of the evaluator
\* The environment the formula alone gives after its first k statements: the
\* builtin series of the InputData, each name then bound by the latest
\* Assignment to it among those statements.
BuiltinSeries(data, name) ==
    CASE name = << "O" >> -> data.opens
      [] name = << "H" >> -> data.highs
      [] name = << "L" >> -> data.lows
      [] name = << "C" >> -> data.closes
      [] name = << "V" >> -> data.volumes

RECURSIVE BoundBySource(_, _, _)
BoundBySource(f, k, data) ==
    IF k = 0 THEN [name \in BuiltinNames |-> BuiltinSeries(data, name)]
    ELSE One({ IF f[k].type # "Assignment" THEN env
               ELSE One({ IF ~v.ok THEN env
                          ELSE [n \in DOMAIN env \cup {f[k].name} |->
                                   IF n = f[k].name THEN v.val ELSE env[n]] :
                          v \in {evaluateExpr(f[k].expr, env, data)} }) :
               env \in {BoundBySource(f, k - 1, data)} })

\* The statement the loop has just taken ended as its expression does when
\* its variables are resolved by the statements before it in the formula.
LastStatementInOrder ==
    \A claimed \in {evaluateExpr(formula[stmtIndex].expr,
                                 BoundBySource(formula, stmtIndex - 1, inputData),
                                 inputData)} :
        IF evResult.kind = "thrown"
        THEN ~claimed.ok /\ claimed.err = evResult.err
        ELSE /\ claimed.ok
             /\ formula[stmtIndex].type = "Assignment" =>
                   /\ formula[stmtIndex].name \in DOMAIN environment
                   /\ environment[formula[stmtIndex].name] = claimed.val
             /\ formula[stmtIndex].type = "Output" =>
                   outputLines[Len(outputLines)].data = claimed.val

\* A := MA(C, 2) followed by B: A + 1.
ScenarioAB ==
    << createAssignmentStatement(<< "A" >>,
           createFunctionCallExpr(<< "M", "A" >>, << Var("C"), createLiteralExpr(Num(2)) >>)),
       createOutputStatement(<< "B" >>,
           createBinaryOpExpr(Var("A"), "Add", createLiteralExpr(Num(1))), <<>>) >>

\* B[i] = A[i] + 1 where A[i] has a value, and B[i] is null where A[i] is.
BIsAPlusOne ==
    formula = ScenarioAB /\ evResult.kind = "returned" =>
        /\ Len(evResult.lines) = 1
        /\ Len(evResult.lines[1].data) = Len(environment[<< "A" >>])
        /\ \A k \in 1..Len(environment[<< "A" >>]) :
              LET a == environment[<< "A" >>][k]
                  b == evResult.lines[1].data[k]
              IN  IF a = Null THEN b = Null ELSE b # Null /\ b[1] * a[2] = (a[1] + a[2]) * b[2]

\* C1: in every evaluateFormula call a Variable resolves to the series bound
\* by the latest earlier Assignment of the formula to exactly that name, to
\* the builtin series if the formula has not assigned the name, and a name
\* assigned only by a later statement is an undefined variable; after
\* A := MA(C,2) and B: A + 1, B is A + 1 where A has a value and null elsewhere.
C1_SourceOrder ==
    /\ evCalls >= 1 /\ stmtIndex >= 1 => LastStatementInOrder
    /\ BIsAPlusOne

\* The same on the first call of an evaluator, where the environment is still
\* the one the constructor left.
FirstCallInSourceOrder ==
    /\ evCalls = 1 /\ stmtIndex >= 1 => LastStatementInOrder
    /\ BIsAPlusOne

\* The Output statements among the first k statements of a formula.
OutputStatements(f, k) == SelectSeq(SubSeq(f, 1, k), LAMBDA st : st.type = "Output")

\* name is `output_` followed by k in decimal.
IsAutoName(name, k) ==
    /\ Len(name) > 7
    /\ SubSeq(name, 1, 7) = << "o", "u", "t", "p", "u", "t", "_" >>
    /\ \A j \in 8..Len(name) : IsDigitChar(name[j])
    /\ name[8] # "0"
    /\ DigitsValue(SubSeq(name, 8, Len(name))) = k

\* The lines are those of the Output statements outs, one each and in order.
LinesOf(lines, outs) ==
    /\ Len(lines) = Len(outs)
    /\ \A j \in 1..Len(lines) :
          /\ lines[j].styles = outs[j].styles
          /\ IF outs[j].name = NoName \/ outs[j].name = <<>>
             THEN IsAutoName(lines[j].name, j)
             ELSE lines[j].name = outs[j].name

\* C2: the result holds one line per Output statement of the formula, in
\* statement order, and none for an Assignment; a named Output keeps its
\* name, an unnamed one is named output_<k> with k its 1-based place among
\* the lines of the call so far, and the styles are the statement's.
C2_OutputLines ==
    /\ evPhase = "running" => LinesOf(outputLines, OutputStatements(formula, stmtIndex))
    /\ evResult.kind = "returned" =>
          LinesOf(evResult.lines, OutputStatements(formula, Len(formula)))

\* A call returned two lines for three statements: the named A, then an
\* unnamed, styled Output that became output_2, with an Assignment among them.
C2_Witness ==
    /\ evResult.kind = "returned"
    /\ Len(formula) = 3
    /\ \E k \in 1..3 : formula[k].type = "Assignment"
    /\ Len(evResult.lines) = 2
    /\ evResult.lines[1].name = << "A" >>
    /\ evResult.lines[2].name = << "o", "u", "t", "p", "u", "t", "_", "2" >>
    /\ evResult.lines[2].styles = << << "S", "1" >>, << "S", "2" >> >>


\* --------------------------------- properties of the scalar arguments
ArgumentErrors == {"Missing numeric argument", "Numeric argument cannot be null"}

\* A null at element 0 of the scalar argument is an argument error, and the
\* call ends as it does when the series is cut down to its element 0.
ScalarReadAtElementZero ==
    fnName = "scalar" /\ Len(fnArgs[2]) = 2 /\ Len(fnArgs[2][2]) > 0 =>
        /\ fnArgs[2][2][1] = Null =>
              ~fnResult.ok /\ fnResult.err = "Numeric argument cannot be null"
        /\ fnResult = ApplyScalarBuiltin(fnArgs[1], << fnArgs[2][1], << fnArgs[2][2][1] >> >>)

\* C11: the period of MA, SUM, HHV, LLV, COUNT, STD, CV and the offset of REF
\* are read from element 0 of the argument only: a call without the argument
\* or with a null element 0 fails with an argument error, nothing is put in
\* its place, and the elements behind element 0 do not reach the result.
C11_ScalarArgument ==
    /\ fnName = "scalar" /\ Len(fnArgs[2]) < 2 =>
          ~fnResult.ok /\ fnResult.err \in ArgumentErrors
    /\ ScalarReadAtElementZero


\* ------------------------------------- properties of the environment
\* The statement the loop of evaluateFormula takes next.
NextStatement == formula[stmtIndex + 1]
TakesStatement(type) ==
    evPhase = "running" /\ stmtIndex < Len(formula) /\ NextStatement.type = type

\* The variable names an expression refers to.
RECURSIVE NamesIn(_)
NamesIn(e) ==
    IF e.type = "Variable" THEN {e.name}
    ELSE UNION {NamesIn(e.kids[k]) : k \in 1..Len(e.kids)}

\* The step of an Output statement leaves every binding as it was, so its
\* name, if unbound before, is unbound after.
OutputLeavesEnvironment ==
    TakesStatement("Output") =>
        /\ DOMAIN environment' = DOMAIN environment
        /\ \A n \in DOMAIN environment : environment'[n] = environment[n]
        /\ NextStatement.name \notin DOMAIN environment => NextStatement.name \notin DOMAIN environment'

\* The step of an Assignment changes at most the binding of its variable and
\* adds no output line.
AssignmentBindsOwnName ==
    TakesStatement("Assignment") =>
        /\ outputLines' = outputLines
        /\ DOMAIN environment' \subseteq DOMAIN environment \cup {NextStatement.name}
        /\ \A n \in DOMAIN environment \ {NextStatement.name} :
              n \in DOMAIN environment' /\ environment'[n] = environment[n]

\* An Output that refers to the name of the Output before it, a name no
\* binding exists for, ends the call with the undefined-variable error.
NameOfOutputStaysUndefined ==
    /\ stmtIndex >= 2
    /\ formula[stmtIndex].type = "Output"
    /\ formula[stmtIndex - 1].type = "Output"
    /\ formula[stmtIndex - 1].name \in NamesIn(formula[stmtIndex].expr)
    /\ formula[stmtIndex - 1].name \notin DOMAIN environment
    => /\ evResult.kind = "thrown"
       /\ evResult.err[1] = "Undefined variable"
       /\ evResult.err[2] \in NamesIn(formula[stmtIndex].expr) \ DOMAIN environment

C13_EnvironmentPerCall ==
    evPhase = "running" /\ stmtIndex = 0 =>
        environment = [name \in BuiltinNames |-> BuiltinSeries(inputData, name)]

\* The call in progress began with an empty outputLines, whatever lines the
\* call before had left behind.
LinesOfThisCallOnly ==
    evPhase = "running" \/ evResult.kind = "returned" =>
        Len(outputLines) = Len(OutputStatements(formula, stmtIndex))

\* The first line of a result whose formula begins its Outputs with an
\* unnamed one is output_1, on every call.
AutoNamesRestart ==
    evResult.kind = "returned" /\ evResult.lines # <<>> =>
        \E k \in 1..Len(formula) :
            /\ formula[k].type = "Output"
            /\ \A j \in 1..(k - 1) : formula[j].type # "Output"
            /\ formula[k].name \in {NoName, <<>>} =>
                  evResult.lines[1].name = << "o", "u", "t", "p", "u", "t", "_", "1" >>

\* C14: on a reused Evaluator every call returns the lines of its own formula
\* only, auto names beginning again at output_1, whether the call before
\* returned or threw part-way; and no later call writes to the array of a
\* FormulaResult returned earlier.
C14_ReusedEvaluator ==
    /\ LinesOfThisCallOnly
    /\ AutoNamesRestart
    /\ evResult.kind = "returned" => Len(evResult.lines) = Len(OutputStatements(formula, Len(formula)))
    /\ ~resultChanged

\* The second call returned its single line output_1 after the first call
\* had thrown with a line already produced.
C14_Witness ==
    /\ evCalls = 2
    /\ staleLines >= 1
    /\ returnedIds = {linesId}
    /\ evResult.kind = "returned"
    /\ Len(evResult.lines) = 1
    /\ evResult.lines[1].name = << "o", "u", "t", "p", "u", "t", "_", "1" >>

\* Every series bound in the environment and every series of a returned
\* line has numBars elements.
SeriesHaveNumBars ==
    /\ evCalls >= 1 /\ stmtIndex >= 1 =>
          \A name \in DOMAIN environment : Len(environment[name]) = inputData.numBars
    /\ evResult.kind = "returned" =>
          \A j \in 1..Len(evResult.lines) : Len(evResult.lines[j].data) = inputData.numBars

\* The same, for an InputData whose builder was left alone after build().
UntouchedDataSeriesLengths ==
    (\A name \in BuiltinNames : Len(BuiltinSeries(inputData, name)) = inputData.numBars)
        => SeriesHaveNumBars

\* C15: for an InputData built by InputDataBuilder, every series bound in the
\* environment after any statement and every series of a returned result has
\* length numBars.
C15_SeriesLengths == evPhase # "unbuilt" => SeriesHaveNumBars

\* The statement about to be executed fails to evaluate.
NextStatementFails ==
    /\ evPhase = "running"
    /\ stmtIndex < Len(formula)
    /\ ~evaluateExpr(NextStatement.expr, environment, inputData).ok

\* The step of a failing statement ends the call with that statement's
\* error; it adds no line and binds nothing.
FailingStepThrows ==
    NextStatementFails =>
        /\ evPhase' = "ready"
        /\ evResult' = Thrown(evaluateExpr(NextStatement.expr, environment, inputData).err)
        /\ outputLines' = outputLines
        /\ environment' = environment

\* No statement is executed and no result is returned once a statement has
\* failed: a call in progress has met no error, a result is returned only
\* from a call in progress whose statements are all executed, and after
\* an error the statement that failed is the last one taken.
NothingAfterTheError ==
    /\ evPhase = "running" => evResult = Pending
    /\ evResult.kind = "thrown" =>
          /\ evPhase = "ready"
          /\ stmtIndex \in 1..Len(formula)
          /\ ~evaluateExpr(formula[stmtIndex].expr, environment, inputData).ok
          /\ Len(outputLines) = Len(OutputStatements(formula, stmtIndex - 1))
    /\ evResult.kind = "returned" => stmtIndex = Len(formula)

\* `UNDEFINED: UnknownVar` ends with the undefined-variable error naming
\* UnknownVar.
ScenarioE ==
    formula = UndefinedFormula /\ evPhase = "ready" =>
        evResult = Thrown(<< "Undefined variable", UnknownVar >>)

\* C16: evaluation is fail-fast: the first statement that fails ends the call
\* with its error, no later statement is executed and no FormulaResult is
\* returned, also when earlier Outputs had produced lines; and
\* `UNDEFINED: UnknownVar` fails naming UnknownVar.
C16_FailFast ==
    /\ [][FailingStepThrows]_vars
    /\ []NothingAfterTheError
    /\ []ScenarioE

\* A call threw 'Unknown function: FOO' at its second statement, with the
\* line of the first already produced and a third statement never taken.
C16_Witness ==
    /\ evResult = Thrown(<< "Unknown function", << "F", "O", "O" >> >>)
    /\ stmtIndex = 2
    /\ Len(formula) = 3
    /\ Len(outputLines) = 1
    /\ evPhase = "ready"

\* The tokens of the statements from the k-th on, in order.
RECURSIVE FormulaYield(_, _)
FormulaYield(stmts, k) ==
    IF k > Len(stmts) THEN <<>>
    ELSE One({ y \o FormulaYield(stmts, k + 1) : y \in {StatementYield(stmts[k])} })

WithoutNewlines(toks) == SelectSeq(toks, LAMBDA t : t.tokenType # "Newline")

CountOf(toks, tokenType) == Cardinality({k \in 1..Len(toks) : toks[k].tokenType = tokenType})

\* C17: a Formula is returned only when every token of the input went into a
\* statement; an input with an Illegal token, with a `(` that is never
\* closed, or with a token that neither continues a statement nor starts
\* one fails, and a failure returns no statements.
C17_WholeInputOrFailure ==
    /\ pKind # "none" /\ pResult.ok =>
          FormulaYield(pResult.val, 1) = SigSeq(WithoutNewlines(pTokens))
    /\ pKind # "none" /\ CountOf(pTokens, "Illegal") > 0 => ~pResult.ok
    /\ pKind # "none" /\ CountOf(pTokens, "LParen") > CountOf(pTokens, "RParen") => ~pResult.ok
    /\ ~pResult.ok => pResult.val = <<>>
    /\ pTokens = UnclosedCall => ~pResult.ok

\* `MA5: MA(C, 5` failed where the input ended before the `)`.
C17_Witness ==
    /\ pTokens = UnclosedCall
    /\ ~pResult.ok
    /\ pResult.err = "Expected but got end of file"

\* A failure met at a token of the wrong kind carries that token, one of
\* the input or the Eof token after it.
WrongKindCarriesToken ==
    ~pResult.ok /\ pResult.err \in {"Unexpected token", "Expected but got"} =>
        \/ pResult.tok = EofTok
        \/ \E k \in 1..Len(pTokens) : pResult.tok = pTokens[k]

\* C18: every failure of parseFormula carries the line and column of the
\* offending token, also where the input ends too early and where a comma
\* is missing in IF(...).
C18_ErrorsCarryPosition == pKind # "none" /\ ~pResult.ok => pResult.tok # NullTok

\* C19: a formula whose statements end with `;`, or are separated by `;`, is
\* parsed, with one statement for each.
C19_SemicolonStatements ==
    /\ pTokens = SemicolonSeparated => pResult.ok /\ Len(pResult.val) = 2
    /\ pTokens = SemicolonTerminated => pResult.ok /\ Len(pResult.val) = 2
    /\ /\ pKind = "tokens"
       /\ Len(pTokens) = 4
       /\ \A k \in 1..4 : pTokens[k].tokenType = (IF k % 2 = 1 THEN "Identifier" ELSE "Semicolon")
       => pResult.ok /\ Len(pResult.val) = 2

\* No input with a `;` in it is parsed: the parser has no case for the
\* Semicolon token.
SemicolonNeverParsed == pKind # "none" /\ CountOf(pTokens, "Semicolon") > 0 => ~pResult.ok

\* ------------------------------------------- properties of the registry
\* A lower-case letter and its capital.
LetterPairs ==
    { << "a", "A" >>, << "b", "B" >>, << "c", "C" >>, << "d", "D" >>, << "e", "E" >>,
      << "f", "F" >>, << "g", "G" >>, << "h", "H" >>, << "i", "I" >>, << "j", "J" >>,
      << "k", "K" >>, << "l", "L" >>, << "m", "M" >>, << "n", "N" >>, << "o", "O" >>,
      << "p", "P" >>, << "q", "Q" >>, << "r", "R" >>, << "s", "S" >>, << "t", "T" >>,
      << "u", "U" >>, << "v", "V" >>, << "w", "W" >>, << "x", "X" >>, << "y", "Y" >>,
      << "z", "Z" >> }

\* Two names are equal ignoring letter case.
SameIgnoringCase(a, b) ==
    /\ Len(a) = Len(b)
    /\ \A k \in 1..Len(a) :
          \/ a[k] = b[k]
          \/ << a[k], b[k] >> \in LetterPairs
          \/ << b[k], a[k] >> \in LetterPairs

\* A registerFunction call that the registry accepts.
Accepted(call) == call.op = "register" /\ call.name # <<>> /\ call.func # "notAFunction"

\* The calls of the log that touch the binding of n: accepted registrations
\* and unregistrations under a name equal to n ignoring case.
Touching(log, n) ==
    SelectSeq(log, LAMBDA call : /\ SameIgnoringCase(call.name, n)
                                 /\ (call.op = "unregister" \/ Accepted(call)))

\* The implementation bound to n after the calls of the log: that of the
\* last registration not unregistered since, the builtin's when no call
\* touched a builtin's name, "undefined" otherwise.
BoundAfter(log, n) ==
    LET calls == Touching(log, n)
    IN  IF calls = <<>>
        THEN IF \E k \in 1..Len(BuiltinFunctionNames) : SameIgnoringCase(BuiltinFunctionNames[k], n)
             THEN "builtin" ELSE "undefined"
        ELSE IF calls[Len(calls)].op = "unregister" THEN "undefined"
        ELSE calls[Len(calls)].func

\* Names in every spelling drawn, and spellings of builtins.
NamesAsked ==
    NamesDrawn \cup {<< "M", "A" >>, << "A", "b" >>, << "r", "e", "f" >>, << "C", "V" >>, << "a" >>}

IsUpperCase(name) == \A k \in 1..Len(name) : \A pair \in LetterPairs : name[k] # pair[1]

\* C20: after any calls of registerFunction and unregisterFunction,
\* getFunction(n) is the implementation last registered under a name equal
\* to n ignoring case and not unregistered since, hasFunction(n) tells
\* whether there is one, unregisterFunction returned true exactly when there
\* was one, getAllFunctionNames holds every bound name once and in upper
\* case, and a rejected registerFunction changed nothing.
C20_RegistryBindings ==
    /\ \A n \in NamesAsked : \E bound \in {BoundAfter(regLog, n)} :
          /\ Registry_getFunction(functions, n) = bound
          /\ hasFunction(functions, n) = (bound # "undefined")
          /\ bound # "undefined" =>
                \E name \in { getAllFunctionNames(functions)[k] : k \in 1..Len(functions) } :
                    SameIgnoringCase(name, n)
    /\ \E names \in {getAllFunctionNames(functions)} :
          /\ \A k \in 1..Len(names) :
                IsUpperCase(names[k]) /\ BoundAfter(regLog, names[k]) # "undefined"
          /\ \A j, k \in 1..Len(names) : j # k => names[j] # names[k]
    /\ regLog # <<>> =>
          LET last == regLog[Len(regLog)]
              before == SubSeq(regLog, 1, Len(regLog) - 1)
          IN  /\ last.op = "unregister" =>
                    (regReturn = "true") = (BoundAfter(before, last.name) # "undefined")
              /\ last.op = "register" => (regReturn = "thrown") = ~Accepted(last)
              /\ last.op = "register" /\ ~Accepted(last) =>
                    \A n \in NamesAsked : BoundAfter(regLog, n) = BoundAfter(before, n)

\* `ma` was registered over the builtin, unregistered as `Ma` and registered
\* again as `Ma`: MA is bound to the last function and is the newest key.
C20_Witness ==
    /\ Len(regLog) = 3
    /\ regLog[1] = [op |-> "register", name |-> << "m", "a" >>, func |-> "f1"]
    /\ regLog[2] = [op |-> "unregister", name |-> << "M", "a" >>, func |-> "none"]
    /\ regLog[3] = [op |-> "register", name |-> << "M", "a" >>, func |-> "f2"]
    /\ Registry_getFunction(functions, << "m", "a" >>) = "f2"
    /\ getAllFunctionNames(functions)[Len(functions)] = << "M", "A" >>

\* --------------------------------------- properties of the function call
\* The series an argument drawn stands for, <<"unbound">> for a name that
\* is not bound: read off the test's setup, not computed by the evaluator.
ArgSeries(arg) ==
    IF arg.type = "Literal" THEN << arg.num, arg.num >>
    ELSE IF arg.name = Var1 THEN << Num(1), Num(2), Num(3) >>
    ELSE IF arg.name = Var2 THEN << Num(1), Num(2) >>
    ELSE << "unbound" >>

Unbound(arg) == arg.type = "Variable" /\ arg.name \notin {Var1, Var2}

\* C27: a function call evaluates its arguments from left to right, then
\* compares their lengths, then looks the function up: the error of the
\* first argument that fails comes first, arguments of different lengths
\* give the length error naming the function whether or not the name is
\* registered, and the unknown-function error needs lengths that agree.
C27_LengthsBeforeLookup ==
    fnName = "call" =>
        LET name == fnArgs[1]
            args == fnArgs[2]
            failing == {k \in 1..Len(args) : Unbound(args[k])}
            differ == \E j, k \in 1..Len(args) : Len(ArgSeries(args[j])) # Len(ArgSeries(args[k]))
        IN  IF failing # {}
            THEN \E k \in failing :
                    /\ \A j \in failing : k =< j
                    /\ fnResult = EvalError("Undefined variable", args[k].name)
            ELSE IF differ
            THEN fnResult = EvalError("requires arguments of same length", name)
            ELSE IF name = << "T", "E", "S", "T", "_", "F", "U", "N", "C" >>
            THEN fnResult = EvalError("Unknown function", name)
            ELSE ~fnResult.ok => fnResult.err[1] \notin {"requires arguments of same length",
                                                         "Unknown function", "Undefined variable"}

\* TEST_FUNC(Var1, Var2), not registered, failed on the lengths.
C27_Witness ==
    /\ fnName = "call"
    /\ fnArgs = << << "T", "E", "S", "T", "_", "F", "U", "N", "C" >>,
                   << createVariableExpr(Var1), createVariableExpr(Var2) >> >>
    /\ fnResult = EvalError("requires arguments of same length",
                            << "T", "E", "S", "T", "_", "F", "U", "N", "C" >>)

\* ------------------------------------------- properties of the InputData
EqualLengths(data) ==
    \A name \in BuiltinNames : Len(BuiltinSeries(data, name)) = Len(data.opens)

\* C21: an InputData whose five sequences differ in length is rejected when
\* it is constructed or handed to an Evaluator: no Evaluator exists over
\* such data, and none evaluates a formula over it.
C21_UnequalDataRejected == evPhase \in {"ready", "running"} => EqualLengths(inputData)

\* A state the evaluator reaches over unequal data: a formula returned a
\* line shorter than numBars, and no error was raised.
UnequalDataMisEvaluated ==
    /\ inputData = UnequalData
    /\ evResult.kind = "returned"
    /\ Len(evResult.lines) = 1
    /\ Len(evResult.lines[1].data) < inputData.numBars

\* C29: an InputData that build() returned keeps its five sequences at the
\* length numBars, with the values it was built with, whatever is added to
\* the builder afterwards.
C29_BuiltDataKeepsInvariant ==
    evPhase = "built" =>
        /\ \A name \in BuiltinNames : Len(BuiltinSeries(inputData, name)) = inputData.numBars
        /\ inputData = SampleData(inputData.numBars)

\* ------------------------------------------ properties of the token source
\* How many tokens the next() calls before the j-th call of the log have
\* taken from the lexer's tokens.
TakenBefore(log, toks, j) ==
    LET nexts == Cardinality({i \in 1..(j - 1) : log[i].op = "next"})
    IN  IF nexts < Len(toks) THEN nexts ELSE Len(toks)

\* What a faithful token source answers to the j-th call: the lexer's next
\* token not yet delivered, or the end of the stream when that token is Eof.
Faithful(log, toks, j) ==
    LET k == TakenBefore(log, toks, j)
    IN  IF k < Len(toks) THEN IterResult(toks[k + 1], FALSE) ELSE IterResult(NullTok, TRUE)

\* C30: whatever the interleaving of peek() and next(), next() delivers the
\* lexer's tokens in order, none skipped or doubled, peek() shows the token
\* the following next() delivers, at most one token is buffered, and
\* next() reports the end exactly when the lexer's next token is Eof, also
\* after that Eof was peeked.
C30_FaithfulLookahead ==
    \A j \in 1..Len(itLog) : itLog[j].result = Faithful(itLog, itState.toks, j)

\* The same for the calls made while the lexer has tokens left before Eof.
FaithfulBeforeEof ==
    \A j \in 1..Len(itLog) :
        TakenBefore(itLog, itState.toks, j) < Len(itState.toks) =>
            itLog[j].result = Faithful(itLog, itState.toks, j)

\* peek() at the end of the input always reports the end.
PeekReportsEnd ==
    \A j \in 1..Len(itLog) :
        itLog[j].op = "peek" => itLog[j].result = Faithful(itLog, itState.toks, j)


\* ---------------------------------------------------------------- C24
\* A call that returned something else than Eof.
NotEof(call) == call.token.tokenType # "Eof"

\* C24: every call of nextToken that returns a token other than Eof, an
\* Illegal one included, leaves the lexer at least one character further
\* on, and every call after one that returned Eof returns Eof: so a loop
\* of calls reaches Eof.
C24_EveryCallAdvances ==
    /\ \A j \in 1..Len(lxLog) : NotEof(lxLog[j]) => lxLog[j].to > lxLog[j].from
    /\ \A j \in 1..Len(lxLog) : \A k \in j..Len(lxLog) :
        ~NotEof(lxLog[j]) => ~NotEof(lxLog[k])

\* A call that stopped at a character no token begins with.
IllegalCharCall(call) ==
    /\ call.token.tokenType = "Illegal"
    /\ call.start < Len(lxState.input)
    /\ call.to = call.start
    /\ call.token.lexeme = << At(lxState.input, call.start) >>

\* Every other call advances, Eof is returned at the end of the input
\* only, and stays.
AdvancesUnlessIllegalChar ==
    /\ \A j \in 1..Len(lxLog) :
        NotEof(lxLog[j]) /\ ~IllegalCharCall(lxLog[j]) => lxLog[j].to > lxLog[j].from
    /\ \A j \in 1..Len(lxLog) : \A k \in j..Len(lxLog) :
        ~NotEof(lxLog[j]) => ~NotEof(lxLog[k]) /\ lxLog[j].to = Len(lxState.input)

\* The lexer stays on an illegal character: six calls, six times the same
\* token, the end of the input not reached.
StuckOnIllegalChar ==
    /\ Len(lxLog) = MaxLexCalls
    /\ Len(lxState.input) = 1
    /\ \A j \in 1..Len(lxLog) : IllegalCharCall(lxLog[j]) /\ lxLog[j] = lxLog[1]

\* ---------------------------------------------------------------- C25
\* One or more digits.
IsDigits(text) == Len(text) >= 1 /\ \A i \in 1..Len(text) : IsDigitChar(text[i])

\* Digits, or digits, a point and digits.
IsNumberLexeme(text) ==
    \/ IsDigits(text)
    \/ \E i \in 2..(Len(text) - 1) :
        /\ text[i] = "."
        /\ IsDigits(SubSeq(text, 1, i - 1))
        /\ IsDigits(SubSeq(text, i + 1, Len(text)))

\* C25: the lexeme of a Number token is a run of digits, optionally
\* followed by a point and a run of digits; it never ends with the point.
C25_NumberLexeme ==
    \A j \in 1..Len(lxLog) :
        lxLog[j].token.tokenType = "Number" => IsNumberLexeme(lxLog[j].token.lexeme)

\* What readNumber does give: the digits after the point may be missing.
NumberLexemeOrTrailingPoint ==
    \A j \in 1..Len(lxLog) :
        lxLog[j].token.tokenType = "Number" =>
            \/ IsNumberLexeme(lxLog[j].token.lexeme)
            \/ /\ lxLog[j].token.lexeme[Len(lxLog[j].token.lexeme)] = "."
               /\ IsDigits(SubSeq(lxLog[j].token.lexeme, 1, Len(lxLog[j].token.lexeme) - 1))

\* ---------------------------------------------------------------- C28
\* The offsets before offset that hold a line feed.
NewlinesBefore(text, offset) == { i \in 0..(offset - 1) : At(text, i) = "\n" }

\* The 1-based line of the character at offset.
PhysicalLine(text, offset) == 1 + Cardinality(NewlinesBefore(text, offset))

\* The 1-based column of the character at offset.
PhysicalColumn(text, offset) ==
    IF NewlinesBefore(text, offset) = {} THEN offset + 1
    ELSE offset - (CHOOSE i \in NewlinesBefore(text, offset) :
                      \A k \in NewlinesBefore(text, offset) : k <= i)

\* The token of the call carries the place of its first character.
CarriesItsPlace(call) ==
    /\ call.token.line = PhysicalLine(lxState.input, call.start)
    /\ call.token.column = PhysicalColumn(lxState.input, call.start)

\* C28: every token other than Newline (and the Eof token, which has no
\* first character) carries the 1-based physical line and column of its
\* first character.
C28_PhysicalPositions ==
    \A j \in 1..Len(lxLog) :
        lxLog[j].token.tokenType \notin {"Newline", "Eof"} => CarriesItsPlace(lxLog[j])

\* The positions are right as long as no comment and no string is in the
\* input, the Eof token included.
PositionsWithoutComments ==
    (\A i \in 1..Len(lxState.input) : lxState.input[i] \notin {"{", "\""}) =>
        \A j \in 1..Len(lxLog) :
            lxLog[j].token.tokenType # "Newline" => CarriesItsPlace(lxLog[j])

\* A token right after a comment that holds a line feed: the column it
\* carries is one more than the column it is at.
ColumnAfterCommentNewline ==
    /\ lxState.input = << "{", "\n", "}", "A" >>
    /\ Len(lxLog) = 1
    /\ lxLog[1].token = createToken("Identifier", << "A" >>, 2, 3)
    /\ PhysicalColumn(lxState.input, lxLog[1].start) = 2


\* ---------------------------------------------------------------- C23
\* The names of the variables an expression refers to.
RECURSIVE VariablesOf(_)
VariablesOf(expr) ==
    IF expr.type = "Variable" THEN {expr.name}
    ELSE IF expr.type = "Literal" THEN {}
    ELSE UNION { VariablesOf(expr.kids[k]) : k \in 1..Len(expr.kids) }

\* The names a formula refers to and does not assign itself.
NamesReferenced(statements) ==
    UNION { VariablesOf(statements[k].expr) : k \in 1..Len(statements) }
        \ { statements[k].name : k \in { j \in 1..Len(statements) :
                                            statements[j].type = "Assignment" } }

\* The upper-cased keys of the stock's custom fields that are arrays of
\* numbers as long as the stock's series.
CustomFieldNames(stock) ==
    { toUpperCase(stock.data.extra[k].key) :
        k \in { j \in 1..Len(stock.data.extra) :
                  /\ stock.data.extra[j].value.isArray
                  /\ Len(stock.data.extra[j].value.items) = Len(stock.data.opens)
                  /\ \A i \in 1..Len(stock.data.extra[j].value.items) :
                        stock.data.extra[j].value.items[i] # Null } }

\* The upper-cased names of the added indicators as long as the stock.
IndicatorNames(stock) ==
    { toUpperCase(cdIndicators[k].key) :
        k \in { j \in 1..Len(cdIndicators) :
                  Len(cdIndicators[j].value.data) = Len(stock.data.opens) } }

\* The stock has a result line and no error in what the call returned.
HasLineAndNoError(symbol) ==
    /\ \E k \in 1..Len(cdResult.val.results) : cdResult.val.results[k].stockSymbol = symbol
    /\ \A k \in 1..Len(cdResult.val.errors) : cdResult.val.errors[k].stockSymbol # symbol

\* An evaluateCombinedFormula call has just returned.
CombinedReturned == cdLast = "evaluateCombinedFormula" /\ cdResult.ok

\* C23: when evaluateCombinedFormula returns, every stock for which the
\* formula refers only to builtin variables, to upper-cased keys of its
\* numeric array fields and to upper-cased names of added indicators of
\* its length has a result line and no error.
C23_CustomVariables ==
    CombinedReturned =>
        \A k \in 1..Len(cdStocks) :
            NamesReferenced(cdRequest.formula) \subseteq
                BuiltinNames \cup CustomFieldNames(cdStocks[k].value)
                    \cup IndicatorNames(cdStocks[k].value)
            => HasLineAndNoError(cdStocks[k].key)

\* What the code does: a stock has its lines when the formula refers to
\* builtin variables only, and else the error of an undefined variable.
OnlyBuiltinsResolved ==
    CombinedReturned =>
        \A k \in 1..Len(cdStocks) :
            IF NamesReferenced(cdRequest.formula) \subseteq BuiltinNames
            THEN HasLineAndNoError(cdStocks[k].key)
            ELSE \E e \in 1..Len(cdResult.val.errors) :
                    /\ cdResult.val.errors[e].stockSymbol = cdStocks[k].key
                    /\ cdResult.val.errors[e].error[1] = "Undefined variable"
                    /\ cdResult.val.errors[e].error[2] \in NamesReferenced(cdRequest.formula)

\* The example of the README: DEMO with customRSI, the formula RSI_SIGNAL,
\* and the answer: no line, one error.
ReadmeExampleFails ==
    /\ cdLast = "evaluateCombinedFormula"
    /\ cdCalls = 2
    /\ cdRequest.formula = RsiSignal
    /\ Len(cdStocks) = 1 /\ cdStocks[1].key = "DEMO"
    /\ cdResult = Ok([results |-> <<>>,
                      errors |-> << StockError("DEMO", << "Undefined variable",
                                                         toUpperCase(CustomRsi) >>) >>])


\* ---------------------------------------------------------------- C22
\* What evaluateFormula gives on an Evaluator that runs alone over the
\* InputData as it was made.
ResultAlone(statements) ==
    One({ IF r.ok THEN Returned(r.val) ELSE Thrown(r.err) :
          r \in {evaluateFormula(statements, SampleData(MaxBars))} })

\* C22: whatever the order in which the statements of two Evaluators over
\* one InputData are executed, each Evaluator ends with the result it has
\* when it runs alone, and the series of the InputData hold the values
\* they were made with.
C22_EvaluatorsIndependent ==
    /\ \A e \in InPhase("done") : pairEv[e].result = ResultAlone(pairEv[e].formula)
    /\ pairHeap # <<>> => SharedInputData(pairHeap) = SampleData(MaxBars)

\* Both Evaluators are done, their statements were interleaved, one bound
\* C and A by assignment and the other, which assigns nothing, read C and
\* found A undefined.
C22_Witness ==
    /\ InPhase("done") = {1, 2}
    /\ interleaved
    /\ \E e \in 1..2 :
        /\ \A k \in 1..Len(pairEv[e].formula) : pairEv[e].formula[k].type = "Assignment"
        /\ Len(pairEv[e].formula) = MaxPairStmts
        /\ << "C" >> \in { pairEv[e].formula[k].name : k \in 1..Len(pairEv[e].formula) }
    /\ \E e \in 1..2 :
        /\ \A k \in 1..Len(pairEv[e].formula) : pairEv[e].formula[k].type = "Output"
        /\ pairEv[e].result.kind = "thrown"
        /\ pairEv[e].stmtIndex = 2


\* ---------------------------------------------------------------- C26
\* C26: a getBatchStockData call whose requests all complete or fail
\* eventually resolves, however many symbols it is given.
C26_BatchResolves == (batchPhase = "called") ~> (batchPhase = "resolved")

\* The symbols of the call that isSupported accepts.
SupportedSymbols == { k \in 1..Len(batchSymbols) : batchSymbols[k] }

\* A call with fewer supported symbols than the limiter has slots resolves.
FewerThanSlotsResolves ==
    (batchPhase = "called" /\ Cardinality(SupportedSymbols) < Concurrency)
        ~> (batchPhase = "resolved")

\* Never more than Concurrency functions hold a slot.
SlotsRespected == activeCount <= Concurrency

\* Every slot is held by a task function awaiting a fetchData function
\* that waits in the queue for a slot.
AllSlotsAwaiting ==
    /\ batchPhase = "called"
    /\ awaiting = Concurrency
    /\ fetching = 0
    /\ settled < Len(batchSymbols)
    /\ Len(limQueue) >= Concurrency

\* The documented batch of 25 symbols, all supported: five tasks and twenty
\* fetchData functions wait, and nothing has settled.
TwentyFiveStarve ==
    /\ AllSlotsAwaiting
    /\ Cardinality(SupportedSymbols) = 25
    /\ Len(batchSymbols) = 25
    /\ settled = 0
    /\ Len(limQueue) = 25

\* From there no step is possible.
StarvedForEver == [][~AllSlotsAwaiting]_vars

==============================================================================
